---- MODULE Spec2Model ----
(***************************************************************************)
(* Streak, conditional-outcome and range-block analysis of the algoTestes  *)
(* package (app.py, pattern_analyzer.py, avg_range.py,                     *)
(* index_base_pattern.py).                                                 *)
(*                                                                         *)
(* Every analysis is a synchronous function of its input table, so each    *)
(* specification below draws an input from a bounded set (Init) and has    *)
(* one action per analysis routine, which runs the routine to its end.     *)
(* Loops of the source are RECURSIVE folds whose step operator is the      *)
(* loop body.                                                              *)
(*                                                                         *)
(* Numbers.  A change is an integer; a missing value (pandas NaN) is the   *)
(* value NaN, for which every comparison of the source is false.           *)
(* Positions are 1-based: the source's changes[i] is changes[i + 1] here,  *)
(* and dates[i], which runs parallel to changes, is the position i + 1.    *)
(***************************************************************************)
EXTENDS Integers, Sequences, FiniteSets, TLC

VARIABLES
    pc,                   \* "start" before the routine has run, "done" after
    scan,                 \* which longest-streak loop of analyze_csv runs
    changes,              \* df['Change %'].values / week_data['Change %'].values
    streak,               \* the locals of the longest-streak loop at its end
    weekly_changes,       \* weekly_changes['Change %'].values
    streak_stats,         \* analyze_consecutive_weeks: streak_stats
    results,              \* analyze_consecutive_weeks: results
    change_percent,       \* calculate_range_block: its argument
    range_block,          \* calculate_range_block: its return value
    df,                   \* analyze_avg_range: the rows of df
    range_blocks,         \* analyze_avg_range: the groups of df.groupby('Range_Block')
    range_block_analysis, \* analyze_avg_range: results['range_blocks']
    call,                 \* the entry point that is called
    dataset,              \* the caller's table: the file as read, or the frame passed
    output,               \* what the entry point returned or raised
    history               \* the outputs of the calls made before, oldest first

vars == <<pc, scan, changes, streak, weekly_changes, streak_stats, results,
          change_percent, range_block, df, range_blocks, range_block_analysis,
          call, dataset, output, history>>

scanVars == <<scan, changes, streak>>
weekVars == <<weekly_changes, streak_stats, results>>
blockVars == <<change_percent, range_block>>
rangeVars == <<df, range_blocks, range_block_analysis>>
entryVars == <<call, dataset, output, history>>

\* The variables of the routines a specification does not run.
IdleScan == scan = "none" /\ changes = <<>> /\ streak = <<>>
IdleWeeks == weekly_changes = <<>> /\ streak_stats = <<>> /\ results = <<>>
IdleBlock == change_percent = 0 /\ range_block = 0
IdleRange == df = <<>> /\ range_blocks = <<>> /\ range_block_analysis = <<>>
IdleEntry == call = "none" /\ dataset = <<>> /\ output = <<>> /\ history = <<>>

(***************************************************************************)
(* Bounds of the model.                                                    *)
(***************************************************************************)
MaxLen == 5          \* longest change series given to a longest-streak loop
MaxWeeks == 7        \* longest weekly series given to analyze_consecutive_weeks
MaxChange == 95      \* largest |change|, in hundredths of a percent, classified
MaxRows == 3         \* most rows of a frame given to analyze_avg_range
MaxRecords == 3      \* most rows of a file given to analyze_csv
MaxPlainRows == 2    \* most rows of a table given to the other entry points
MaxCalls == 3        \* most calls a caller makes with one table

(***************************************************************************)
(* Missing values and the comparisons of the source.                       *)
(***************************************************************************)
NaN == -9999
\* Python's None, as calculate_range_block returns it.
None == -9998

IsNaN(x) == x = NaN

\* x > 0 and x < 0 on floats: false when x is NaN.
Gt0(x) == ~IsNaN(x) /\ x > 0
Lt0(x) == ~IsNaN(x) /\ x < 0

Min2(a, b) == IF a <= b THEN a ELSE b
Max2(a, b) == IF a >= b THEN a ELSE b

RECURSIVE SeqsUpTo(_, _)
\* All sequences over S of length 1..n.
SeqsUpTo(S, n) ==
    IF n = 0 THEN {}
    ELSE SeqsUpTo(S, n - 1) \cup [1..n -> S]

(***************************************************************************)
(* app.py, analyze_csv: the longest-streak loops.                          *)
(*   "overall": lines 160-180, over the whole frame in frame order.        *)
(*   "week":    lines 87-107, over one week group sorted by date.          *)
(***************************************************************************)
StreakValues == {-1, 0, 1, NaN}

\* The condition of the loop's if: both neighbours positive or both negative.
SameSign(a, b) == (Gt0(a) /\ Gt0(b)) \/ (Lt0(a) /\ Lt0(b))

\* 'positive' if x > 0 else 'negative'
TypeOf(x) == IF Gt0(x) THEN "positive" ELSE "negative"

\* The locals as set before the loop (app.py:163-168 and 90-95).
StreakInit(ch) ==
    [current_streak     |-> 1,
     max_streak         |-> 1,
     streak_type        |-> TypeOf(ch[1]),
     streak_start_date  |-> 1,
     streak_end_date    |-> 1,
     current_start_date |-> 1]

\* One iteration of the overall loop (app.py:171-180).  The two date
\* assignments are as the source has them: the end date takes the start of
\* the current run and the start date takes dates[i].
OverallStreakStep(st, ch, i) ==
    IF SameSign(ch[i], ch[i - 1])
    THEN LET cs == st.current_streak + 1 IN
         IF cs > st.max_streak
         THEN [st EXCEPT !.current_streak = cs,
                         !.max_streak = cs,
                         !.streak_type = TypeOf(ch[i]),
                         !.streak_end_date = st.current_start_date,
                         !.streak_start_date = i]
         ELSE [st EXCEPT !.current_streak = cs]
    ELSE [st EXCEPT !.current_streak = 1,
                    !.current_start_date = i]

\* One iteration of the per-week loop (app.py:98-107).
WeekStreakStep(st, ch, i) ==
    IF SameSign(ch[i], ch[i - 1])
    THEN LET cs == st.current_streak + 1 IN
         IF cs > st.max_streak
         THEN [st EXCEPT !.current_streak = cs,
                         !.max_streak = cs,
                         !.streak_type = TypeOf(ch[i]),
                         !.streak_start_date = st.current_start_date,
                         !.streak_end_date = i]
         ELSE [st EXCEPT !.current_streak = cs]
    ELSE [st EXCEPT !.current_streak = 1,
                    !.current_start_date = i]

StreakStep(kind, st, ch, i) ==
    IF kind = "overall" THEN OverallStreakStep(st, ch, i)
    ELSE WeekStreakStep(st, ch, i)

RECURSIVE StreakAfter(_, _, _)
\* The locals after the iterations for positions 2..k (k = 1: before the loop).
StreakAfter(kind, ch, k) ==
    IF k = 1 THEN StreakInit(ch)
    ELSE StreakStep(kind, StreakAfter(kind, ch, k - 1), ch, k)

\* The loop run to its end: for i in range(1, len(changes)).
LongestStreak(kind, ch) == StreakAfter(kind, ch, Len(ch))

\* The series a loop can be given: analyze_csv returns before the loops when
\* no change is present (app.py:33-35), and idxmax of a week whose changes
\* are all missing raises before the week's loop (app.py:76).
ScanInputs == {s \in SeqsUpTo(StreakValues, MaxLen) : \E i \in 1..Len(s) : ~IsNaN(s[i])}

InitScan ==
    /\ pc = "start"
    /\ scan \in {"overall", "week"}
    /\ changes \in ScanInputs
    /\ streak = <<>>
    /\ IdleWeeks /\ IdleBlock /\ IdleRange /\ IdleEntry

LongestStreakOverall ==
    /\ pc = "start" /\ scan = "overall"
    /\ streak' = LongestStreak("overall", changes)
    /\ pc' = "done"
    /\ UNCHANGED <<scan, changes, weekVars, blockVars, rangeVars, entryVars>>

LongestStreakWeek ==
    /\ pc = "start" /\ scan = "week"
    /\ streak' = LongestStreak("week", changes)
    /\ pc' = "done"
    /\ UNCHANGED <<scan, changes, weekVars, blockVars, rangeVars, entryVars>>

NextScan == LongestStreakOverall \/ LongestStreakWeek

SpecScan == InitScan /\ [][NextScan]_vars

(***************************************************************************)
(* Properties of the longest-streak loops.                                 *)
(***************************************************************************)
\* A value with a sign: neither zero nor missing.
Signed(x) == Gt0(x) \/ Lt0(x)

RECURSIVE SumOver(_, _)
\* The sum of f[x] over the finite set S.
SumOver(S, f) ==
    IF S = {} THEN 0
    ELSE LET x == CHOOSE y \in S : TRUE IN f[x] + SumOver(S \ {x}, f)

\* The runs the loop delimits: the run that is current after position k is
\* abandoned when the next iteration moves current_start_date, or is the
\* last one when the series ends at k.
DetectedRuns(kind, ch) ==
    LET after(k) == StreakAfter(kind, ch, k)
        ends == {k \in 1..Len(ch) :
                    \/ k = Len(ch)
                    \/ after(k + 1).current_start_date # after(k).current_start_date}
    IN {[start |-> after(k).current_start_date, len |-> after(k).current_streak] : k \in ends}

RunPositions(r) == r.start .. (r.start + r.len - 1)

\* The maximal runs of same-signed values of a series, as intervals.
IsRun(ch, a, b) ==
    /\ \A k \in a..b : Signed(ch[k])
    /\ \A k \in (a + 1)..b : SameSign(ch[k], ch[k - 1])

MaximalRuns(ch) ==
    {r \in [start : 1..Len(ch), end : 1..Len(ch)] :
        /\ r.start <= r.end
        /\ IsRun(ch, r.start, r.end)
        /\ (r.start > 1 => ~IsRun(ch, r.start - 1, r.end))
        /\ (r.end < Len(ch) => ~IsRun(ch, r.start, r.end + 1))}

\* The first of the longest maximal runs.
FirstLongestRun(ch) ==
    LET R == MaximalRuns(ch)
        longest == {r \in R : \A q \in R : q.end - q.start <= r.end - r.start}
    IN CHOOSE r \in longest : \A q \in longest : r.start <= q.start

\* C1: the streaks the run scan detects are pairwise disjoint, and the sum
\* of their lengths plus the number of zero or missing elements equals the
\* length of the series.
C1_StreaksPartitionSeries ==
    pc = "done" =>
        LET R == DetectedRuns(scan, changes)
            unsignedCount == Cardinality({k \in 1..Len(changes) : ~Signed(changes[k])})
        IN /\ \A r \in R : \A q \in R :
                  r # q => RunPositions(r) \cap RunPositions(q) = {}
           /\ SumOver(R, [r \in R |-> r.len]) + unsignedCount = Len(changes)

\* C3: a zero or missing value is a member of no streak, also when it is the
\* first element: the longest streak reported starts at, ends at and contains
\* only signed values, and its reported type is the sign of those values.
C3_LongestStreakIsSigned ==
    pc = "done" =>
        \A k \in Min2(streak.streak_start_date, streak.streak_end_date)
                 .. Max2(streak.streak_start_date, streak.streak_end_date) :
            /\ Signed(changes[k])
            /\ streak.streak_type = TypeOf(changes[k])

\* C4: the loop reports the first run of greatest length (a later run of
\* equal length never replaces it): its length, its type and its two ends.
C4_FirstLongestRunReported ==
    (pc = "done" /\ MaximalRuns(changes) # {}) =>
        LET r == FirstLongestRun(changes) IN
        /\ streak.max_streak = r.end - r.start + 1
        /\ streak.streak_type = TypeOf(changes[r.start])
        /\ {streak.streak_start_date, streak.streak_end_date} = {r.start, r.end}

\* C22: the longest streak reported is a contiguous run whose start is not
\* after its end: the number of records from the reported start to the
\* reported end equals the reported length, and every element from start to
\* end has the reported sign.
C22_LongestStreakStartToEnd ==
    pc = "done" =>
        /\ streak.streak_start_date <= streak.streak_end_date
        /\ streak.streak_end_date - streak.streak_start_date + 1 = streak.max_streak
        /\ \A k \in streak.streak_start_date .. streak.streak_end_date :
              /\ Signed(changes[k])
              /\ streak.streak_type = TypeOf(changes[k])

(***************************************************************************)
(* pattern_analyzer.py, analyze_consecutive_weeks (lines 61-139).          *)
(*                                                                         *)
(* A weekly change is a whole number of percent.  The returned             *)
(* probabilities and averages, which the source rounds to two decimals,    *)
(* are integers in hundredths of a percent (10000 = 100.00%).              *)
(* The result key f"{streak_length}_{streak_type}" is the pair             *)
(* <<streak_length, streak_type>>.                                         *)
(***************************************************************************)
\* The weekly sums are never missing: groupby(...).sum() skips missing values
\* (pattern_analyzer.py:33).
WeekValues == {-2, -1, 0, 1}

StreakTypes == {"positive", "negative"}

\* min(current_streak['length'], 5)
StreakCap == 5
\* for streak_length in range(1, 6)
ReportMax == 5

\* The value a missing key of the defaultdict gets (pattern_analyzer.py:78).
EmptyStats == [count |-> 0, next_positive |-> 0, next_negative |-> 0, next_avg_change |-> <<>>]

\* d[k] of a defaultdict, and d after d[k] = v.
Get(d, k) == IF k \in DOMAIN d THEN d[k] ELSE EmptyStats
Put(d, k, v) == [x \in (DOMAIN d) \cup {k} |-> IF x = k THEN v ELSE d[x]]

RECURSIVE SumSeq(_)
SumSeq(q) == IF q = <<>> THEN 0 ELSE Head(q) + SumSeq(Tail(q))

\* round(num / den, 0) for den > 0: the nearest integer, a tie going to the
\* even one as Python's round does.  (With the series lengths of this model
\* no quotient that is rounded is a tie.)
RoundDiv(num, den) ==
    LET q == num \div den
        r == num % den
    IN IF 2 * r < den THEN q
       ELSE IF 2 * r > den THEN q + 1
       ELSE IF q % 2 = 0 THEN q ELSE q + 1

\* Mutant of UpdateStreak: a zero week leaves the current streak as it is.
UpdateStreak_ZeroKeeps(current_streak, current_change) ==
    IF Gt0(current_change)
    THEN IF current_streak.type = "positive"
         THEN [current_streak EXCEPT !.length = @ + 1]
         ELSE [type |-> "positive", length |-> 1]
    ELSE IF Lt0(current_change)
    THEN IF current_streak.type = "negative"
         THEN [current_streak EXCEPT !.length = @ + 1]
         ELSE [type |-> "negative", length |-> 1]
    ELSE current_streak

\* Determine streak type and length (pattern_analyzer.py:91-102).
UpdateStreak(current_streak, current_change) ==
    IF Gt0(current_change)
    THEN IF current_streak.type = "positive"
         THEN [current_streak EXCEPT !.length = @ + 1]
         ELSE [type |-> "positive", length |-> 1]
    ELSE IF Lt0(current_change)
    THEN IF current_streak.type = "negative"
         THEN [current_streak EXCEPT !.length = @ + 1]
         ELSE [type |-> "negative", length |-> 1]
    ELSE [type |-> "None", length |-> 0]

\* Mutant of StreakBucket: the length is not capped.
StreakBucket_NoCap(length) == length

\* streak_length = min(current_streak['length'], 5) (pattern_analyzer.py:108)
StreakBucket(length) == Min2(length, StreakCap)

\* Mutant of RecordNext: a zero next week is counted as a negative one.
RecordNext_ZeroIsNegative(stats, next_change) ==
    [count           |-> stats.count + 1,
     next_positive   |-> stats.next_positive + (IF Gt0(next_change) THEN 1 ELSE 0),
     next_negative   |-> stats.next_negative + (IF Gt0(next_change) THEN 0 ELSE 1),
     next_avg_change |-> Append(stats.next_avg_change, next_change)]

\* Mutant of RecordNext: an occurrence is counted only when the next week has
\* a sign.
RecordNext_CountSignedOnly(stats, next_change) ==
    [count           |-> stats.count + (IF Gt0(next_change) \/ Lt0(next_change) THEN 1 ELSE 0),
     next_positive   |-> stats.next_positive + (IF Gt0(next_change) THEN 1 ELSE 0),
     next_negative   |-> stats.next_negative + (IF Lt0(next_change) THEN 1 ELSE 0),
     next_avg_change |-> Append(stats.next_avg_change, next_change)]

\* Record what happens after this streak (pattern_analyzer.py:110-117).
RecordNext(stats, next_change) ==
    [count           |-> stats.count + 1,
     next_positive   |-> stats.next_positive + (IF Gt0(next_change) THEN 1 ELSE 0),
     next_negative   |-> stats.next_negative + (IF Lt0(next_change) THEN 1 ELSE 0),
     next_avg_change |-> Append(stats.next_avg_change, next_change)]

\* Mutant of ConsecutiveStep: the week itself is recorded as its next week.
ConsecutiveStep_CurrentAsNext(st, ch, i) ==
    LET cur == UpdateStreak(st.current_streak, ch[i]) IN
    IF cur.type = "None"
    THEN [st EXCEPT !.current_streak = cur]
    ELSE LET key == <<StreakBucket(cur.length), cur.type>> IN
         [current_streak |-> cur,
          streak_stats   |-> Put(st.streak_stats, key,
                                 RecordNext(Get(st.streak_stats, key), ch[i]))]

\* One iteration of the loop over the weeks (pattern_analyzer.py:87-117):
\* ch[i] is current_change and ch[i + 1] is next_change.
ConsecutiveStep(st, ch, i) ==
    LET cur == UpdateStreak(st.current_streak, ch[i]) IN
    IF cur.type = "None"
    THEN [st EXCEPT !.current_streak = cur]
    ELSE LET key == <<StreakBucket(cur.length), cur.type>> IN
         [current_streak |-> cur,
          streak_stats   |-> Put(st.streak_stats, key,
                                 RecordNext(Get(st.streak_stats, key), ch[i + 1]))]

RECURSIVE ConsecutiveAfter(_, _)
\* The loop state after the iterations for positions 1..k
\* (pattern_analyzer.py:83, 86: for i in range(len(changes) - 1)).
ConsecutiveAfter(ch, k) ==
    IF k <= 0
    THEN [current_streak |-> [type |-> "None", length |-> 0], streak_stats |-> <<>>]
    ELSE ConsecutiveStep(ConsecutiveAfter(ch, k - 1), ch, k)

\* Mutant of ConsecutiveScan: the loop also takes the last week as a
\* condition, with a zero change standing for the week after it.
ConsecutiveScan_ThroughLast(ch) ==
    ConsecutiveAfter(Append(ch, 0), Len(ch)).streak_stats

ConsecutiveScan(ch) == ConsecutiveAfter(ch, Len(ch) - 1).streak_stats

\* The entry of one bucket (pattern_analyzer.py:126-137).
BucketResult(stats) ==
    [count              |-> stats.count,
     prob_next_positive |-> RoundDiv(stats.next_positive * 10000, stats.count),
     prob_next_negative |-> RoundDiv(stats.next_negative * 10000, stats.count),
     avg_next_change    |-> IF stats.next_avg_change # <<>>
                            THEN RoundDiv(SumSeq(stats.next_avg_change) * 100,
                                          Len(stats.next_avg_change))
                            ELSE 0]

\* Calculate probabilities and average changes (pattern_analyzer.py:120-137).
ConsecutiveResults(stats) ==
    LET keys == {k \in (1..ReportMax) \X StreakTypes : Get(stats, k).count > 0}
    IN [k \in keys |-> BucketResult(Get(stats, k))]

\* The buckets format_pattern_results prints (pattern_analyzer.py:445-463).
FormattedBuckets(res) == {k \in (1..5) \X StreakTypes : k \in DOMAIN res}

WeekInputs == SeqsUpTo(WeekValues, MaxWeeks) \cup {<<>>}

InitWeeks ==
    /\ pc = "start"
    /\ weekly_changes \in WeekInputs
    /\ streak_stats = <<>>
    /\ results = <<>>
    /\ IdleScan /\ IdleBlock /\ IdleRange /\ IdleEntry

AnalyzeConsecutiveWeeks ==
    /\ pc = "start"
    /\ streak_stats' = ConsecutiveScan(weekly_changes)
    /\ results' = ConsecutiveResults(streak_stats')
    /\ pc' = "done"
    /\ UNCHANGED <<weekly_changes, scanVars, blockVars, rangeVars, entryVars>>

NextWeeks == AnalyzeConsecutiveWeeks

SpecWeeks == InitWeeks /\ [][NextWeeks]_vars

(***************************************************************************)
(* Properties of analyze_consecutive_weeks.                                *)
(***************************************************************************)
RECURSIVE RunLenAt(_, _)
\* The number of same-signed periods that end at period i (0: no sign).
RunLenAt(ch, i) ==
    IF ~Signed(ch[i]) THEN 0
    ELSE IF i > 1 /\ SameSign(ch[i], ch[i - 1]) THEN 1 + RunLenAt(ch, i - 1)
    ELSE 1

\* The periods of the given type that have a next period.
Conditions(ch, type) == {i \in 1..(Len(ch) - 1) : Signed(ch[i]) /\ TypeOf(ch[i]) = type}

\* The occurrence count reported for a bucket (0: the bucket is not reported).
CountOf(length, type) ==
    IF <<length, type>> \in DOMAIN results THEN results[<<length, type>>].count ELSE 0

\* C2 as stated: one observation per maximal streak, in the bucket of its
\* final length only (lengths below the cap).
C2_OneObservationPerMaximalStreak ==
    pc = "done" =>
        \A type \in StreakTypes : \A L \in 1..(StreakCap - 1) :
            CountOf(L, type) =
                Cardinality({r \in MaximalRuns(weekly_changes) :
                                /\ TypeOf(weekly_changes[r.start]) = type
                                /\ r.end - r.start + 1 = L
                                /\ r.end < Len(weekly_changes)})

\* C2 amended: one observation per period of a streak that has a next
\* period, in the bucket of the length the streak has reached at that
\* period; a run of 3 followed by another period adds one observation to
\* each of the buckets 1, 2 and 3.
C2_OneObservationPerStreakPeriod ==
    pc = "done" =>
        \A type \in StreakTypes : \A L \in 1..(StreakCap - 1) :
            CountOf(L, type) =
                Cardinality({i \in Conditions(weekly_changes, type) :
                                RunLenAt(weekly_changes, i) = L})

C2_Witness ==
    /\ pc = "done"
    /\ weekly_changes = <<1, 1, 1, -1>>
    /\ CountOf(1, "positive") = 1
    /\ CountOf(2, "positive") = 1
    /\ CountOf(3, "positive") = 1

\* A positive run of length L within the cap followed by one final period
\* whose change is not positive.
IsRunThenFinal(ch, L) ==
    /\ L \in 1..StreakCap
    /\ Len(ch) = L + 1
    /\ \A k \in 1..L : Gt0(ch[k])
    /\ ~Gt0(ch[L + 1])

\* C5 as stated: for [+1, +1, -1] bucket 2_positive has count 1 and
\* avg_next_change -1.0; a positive run of length L followed by a single
\* final period of change v gives bucket L_positive count 1 and
\* avg_next_change v, and no other bucket has an observation.
C5_RunThenFinalOneBucket ==
    pc = "done" =>
        \A L \in 1..StreakCap :
            IsRunThenFinal(weekly_changes, L) =>
                /\ DOMAIN results = {<<L, "positive">>}
                /\ results[<<L, "positive">>].count = 1
                /\ results[<<L, "positive">>].avg_next_change = 100 * weekly_changes[L + 1]

\* C5 amended: bucket L_positive has count 1 and avg_next_change v; every
\* bucket k_positive with k < L has count 1 too, its next period being the
\* run's period k + 1; no other bucket has an observation.  For [+1, +1, -1]
\* the runs are one positive run of length 2 and one negative run of length 1.
C5_RunThenFinalBuckets ==
    pc = "done" =>
        /\ \A L \in 1..StreakCap :
              IsRunThenFinal(weekly_changes, L) =>
                  /\ DOMAIN results = {<<k, "positive">> : k \in 1..L}
                  /\ \A k \in 1..L :
                        /\ results[<<k, "positive">>].count = 1
                        /\ results[<<k, "positive">>].avg_next_change
                               = 100 * weekly_changes[k + 1]
                        /\ k < L => results[<<k, "positive">>].prob_next_positive = 10000
        /\ weekly_changes = <<1, 1, -1>> =>
              /\ results[<<2, "positive">>].count = 1
              /\ results[<<2, "positive">>].avg_next_change = -100
              /\ DetectedRuns("overall", weekly_changes)
                     = {[start |-> 1, len |-> 2], [start |-> 3, len |-> 1]}
              /\ MaximalRuns(weekly_changes)
                     = {[start |-> 1, end |-> 2], [start |-> 3, end |-> 3]}

C5_Witness ==
    /\ pc = "done"
    /\ weekly_changes = <<1, 1, -1>>
    /\ DOMAIN results = {<<1, "positive">>, <<2, "positive">>}
    /\ results[<<2, "positive">>].avg_next_change = -100

\* The number of periods with a next period whose running streak length is L.
ObservationsAt(ch, type, L) ==
    Cardinality({i \in Conditions(ch, type) : RunLenAt(ch, i) = L})

\* C6 as stated: weekly streak lengths 6 to 10 are reported in their own
\* buckets 6..10.
C6_WeeklyCapIsTen ==
    pc = "done" =>
        \A type \in StreakTypes : \A L \in 6..10 :
            ObservationsAt(weekly_changes, type, L) > 0 =>
                CountOf(L, type) = ObservationsAt(weekly_changes, type, L)

\* C6 amended: the bucket length is capped at 5; the lengths 1..4 are
\* reported in their own buckets (C2), every length of 5 or more is folded
\* into bucket 5, and no bucket above 5 is reported or printed.
C6_WeeklyCapIsFive ==
    pc = "done" =>
        /\ \A type \in StreakTypes :
              CountOf(StreakCap, type) =
                  Cardinality({i \in Conditions(weekly_changes, type) :
                                  RunLenAt(weekly_changes, i) >= 5})
        /\ \A k \in DOMAIN results : k[1] \in 1..5
        /\ FormattedBuckets(results) = DOMAIN results

C6_Witness ==
    /\ pc = "done"
    /\ \E i \in 1..(Len(weekly_changes) - 1) : RunLenAt(weekly_changes, i) = 6
    /\ \E type \in StreakTypes : CountOf(5, type) = 2

\* The number of elements of q that satisfy neither > 0 nor < 0.
ZeroCount(q) == Cardinality({j \in 1..Len(q) : ~Signed(q[j])})

\* C7: in every reported bucket next_positive + next_negative + the number
\* of zero-change next periods = the occurrence count, so the two
\* probabilities sum to at most 100, and to exactly 100 just when no next
\* period had zero change; a zero-change next period is in the occurrence
\* count and among the averaged values and in neither numerator.
C7_ZeroNextInNeitherProbability ==
    pc = "done" =>
        \A k \in DOMAIN results :
            LET st == Get(streak_stats, k)
                nx == st.next_avg_change
                r  == results[k]
            IN /\ r.count = st.count
               /\ Len(nx) = st.count
               /\ st.next_positive = Cardinality({j \in 1..Len(nx) : nx[j] > 0})
               /\ st.next_negative = Cardinality({j \in 1..Len(nx) : nx[j] < 0})
               /\ st.next_positive + st.next_negative + ZeroCount(nx) = st.count
               /\ r.prob_next_positive + r.prob_next_negative <= 10000
               /\ (r.prob_next_positive + r.prob_next_negative = 10000) <=> (ZeroCount(nx) = 0)

C7_Witness ==
    /\ pc = "done"
    /\ \E k \in DOMAIN results :
          /\ results[k].count >= 2
          /\ ZeroCount(Get(streak_stats, k).next_avg_change) = 1
          /\ results[k].prob_next_positive + results[k].prob_next_negative < 10000
          /\ results[k].prob_next_positive > 0

\* The bucket a period with a sign falls in: its type and the length its run
\* has reached, capped.
BucketAt(ch, i) == <<Min2(RunLenAt(ch, i), StreakCap), TypeOf(ch[i])>>

RECURSIVE NextValuesUpTo(_, _, _)
\* The changes of the periods after the periods 1..k of bucket key, in order.
NextValuesUpTo(ch, key, k) ==
    IF k <= 0 THEN <<>>
    ELSE LET prev == NextValuesUpTo(ch, key, k - 1) IN
         IF Signed(ch[k]) /\ BucketAt(ch, k) = key
         THEN Append(prev, ch[k + 1])
         ELSE prev

C26_OneObservationPerNonZeroPeriod ==
    pc = "done" =>
        LET ch == weekly_changes
            conds == {i \in 1..(Len(ch) - 1) : Signed(ch[i])}
        IN /\ SumOver(DOMAIN results, [k \in DOMAIN results |-> results[k].count])
                  = Cardinality(conds)
           /\ \A key \in (1..StreakCap) \X StreakTypes :
                 CountOf(key[1], key[2])
                     = Cardinality({i \in conds : BucketAt(ch, i) = key})
           /\ \A k \in DOMAIN results :
                 results[k].count = Len(Get(streak_stats, k).next_avg_change)

C26_Witness ==
    /\ pc = "done"
    /\ weekly_changes = <<1, 1, 0, -1, 0, 1>>
    /\ CountOf(1, "positive") = 1
    /\ CountOf(2, "positive") = 1
    /\ CountOf(1, "negative") = 1
    /\ DOMAIN results = {<<1, "positive">>, <<2, "positive">>, <<1, "negative">>}

(***************************************************************************)
(* avg_range.py, calculate_range_block (lines 75-104).                     *)
(*                                                                         *)
(* A change is given in hundredths of a percent: the integer c is the      *)
(* float that the text "c/100" parses to, the IEEE-754 double nearest to   *)
(* c/100.  The routine computes with these doubles and the double 0.30, so *)
(* they are kept exactly.  With w = 1 / (100 * 2^60), the double nearest   *)
(* to c/100 is (c * 2^60 + rho) * w for a small integer rho, its rounding  *)
(* residue; the record [c |-> c, rho |-> rho] is that double.              *)
(***************************************************************************)
RECURSIVE Pow2Mod(_, _)
\* 2^p modulo m.
Pow2Mod(p, m) ==
    IF p = 0 THEN 1 % m
    ELSE IF p >= 10 THEN (1024 * Pow2Mod(p - 10, m)) % m
    ELSE (2 * Pow2Mod(p - 1, m)) % m

RECURSIVE Pow2(_)
Pow2(p) == IF p = 0 THEN 1 ELSE 2 * Pow2(p - 1)

RECURSIVE BinadeOf(_, _)
\* The least k >= from with 128 * c < 200 * 2^k: c/100 lies in
\* [2^(k-7), 2^(k-6)), for c >= 1.
BinadeOf(c, from) == IF 128 * c < 200 * Pow2(from) THEN from ELSE BinadeOf(c, from + 1)

\* The spacing of the doubles around c/100, in units of 2^-60: a double has
\* 53 significant bits, so in [2^e, 2^(e+1)) the spacing is 2^(e-52).
Granule(c) == Pow2(BinadeOf(c, 0) + 1)

\* The double nearest to c/100 (c >= 0), a tie going to the even mantissa.
Dbl(c) ==
    IF c = 0 THEN [c |-> 0, rho |-> 0]
    ELSE LET m == 100 * Granule(c)
             t == (c * Pow2Mod(60, 2 * m)) % (2 * m)   \* c * 2^60 mod 2m
             r == t % m
             floorEven == t < m
         IN [c |-> c,
             rho |-> IF 2 * r < m THEN -r
                     ELSE IF 2 * r > m THEN m - r
                     ELSE IF floorEven THEN -r ELSE m - r]

\* The sign of x - j * y for doubles x, y and an integer j >= 0: the residues
\* are far below 2^60, so the nominal parts decide unless they are equal.
CmpMul(x, j, y) ==
    LET d == x.c - j * y.c
        e == x.rho - j * y.rho
    IN IF d # 0 THEN d ELSE e

\* floor(log2(n)) for n >= 1.
RECURSIVE Log2Floor(_)
Log2Floor(n) == IF n < 2 THEN 0 ELSE 1 + Log2Floor(n \div 2)

\* int(x / y) in floats, for x >= 0 and y > 0 with nominal parts x.c, y.c.
\* The exact quotient lies in [n, n + 1) for n = floor(x / y); the float
\* quotient is n + 1 instead when the exact one is within half a spacing of
\* the doubles just below n + 1, which can only be when x.c = (n + 1) * y.c.
DivToInt(x, y) ==
    LET n0 == x.c \div y.c IN
    IF x.c % y.c # 0 THEN n0
    ELSE IF CmpMul(x, n0, y) >= 0 THEN n0
    ELSE \* x is just below n0 * y: the gap is D * w, D = n0 * y.rho - x.rho
         LET D == n0 * y.rho - x.rho
             j == Log2Floor(n0)
             \* half the spacing below n0, times y, in units of w, rounded
             \* down to an integer: y.c * 2^(60 + j - 53), halved when n0 is
             \* a power of two.
             half == IF Pow2(j) = n0 THEN y.c * Pow2(j + 6) ELSE y.c * Pow2(j + 7)
         IN IF D < half \/ (D = half /\ y.rho > 0) THEN n0 ELSE n0 - 1

\* x % y == 0 in floats: the float remainder is exact, so it is zero just
\* when x is an integer multiple of y.
ModIsZero(x, y) ==
    LET n0 == x.c \div y.c IN x.c % y.c = 0 /\ CmpMul(x, n0, y) = 0

\* The literal 0.30 (avg_range.py:94, 97, 98, 101), in hundredths.
BlockWidth == 30

\* Mutant of calculate_range_block: a missing change is classified as 0.00.
calculate_range_block_MissingIsZero(x) ==
    IF IsNaN(x) THEN 0
    ELSE LET abs_change == Dbl(IF x >= 0 THEN x ELSE -x)
             block_number == DivToInt(abs_change, Dbl(BlockWidth))
             k == IF ModIsZero(abs_change, Dbl(BlockWidth)) THEN block_number
                  ELSE block_number + 1
         IN (IF x >= 0 THEN 1 ELSE -1) * k * BlockWidth

\* calculate_range_block(change_percent), the result in hundredths.
\* round(sign * block_value, 2) is the two-decimal number nearest to the
\* float k * 0.30, which is k * 30 hundredths.
calculate_range_block(x) ==
    IF IsNaN(x) THEN None
    ELSE LET sign == IF x >= 0 THEN 1 ELSE -1
             abs_change == Dbl(IF x >= 0 THEN x ELSE -x)
             block_number == DivToInt(abs_change, Dbl(BlockWidth))
             k == IF ModIsZero(abs_change, Dbl(BlockWidth)) THEN block_number
                  ELSE block_number + 1
         IN sign * k * BlockWidth

BlockInputs == (-MaxChange..MaxChange) \cup {NaN}

InitBlock ==
    /\ pc = "start"
    /\ change_percent \in BlockInputs
    /\ range_block = 0
    /\ IdleScan /\ IdleWeeks /\ IdleRange /\ IdleEntry

CalculateRangeBlock ==
    /\ pc = "start"
    /\ range_block' = calculate_range_block(change_percent)
    /\ pc' = "done"
    /\ UNCHANGED <<change_percent, scanVars, weekVars, rangeVars, entryVars>>

NextBlock == CalculateRangeBlock

SpecBlock == InitBlock /\ [][NextBlock]_vars

\* C8: for a non-missing x the result is sign(x) times the smallest
\* multiple of 0.30 that is >= |x|: an exact multiple (0.00, 0.30, 0.60,
\* 0.90, ...) maps to itself, every other value to the next multiple away
\* from zero.
C8_SmallestMultipleNotBelow ==
    (pc = "done" /\ ~IsNaN(change_percent)) =>
        LET a == IF change_percent >= 0 THEN change_percent ELSE -change_percent
            up == BlockWidth * ((a + BlockWidth - 1) \div BlockWidth)
        IN range_block = IF change_percent >= 0 THEN up ELSE -up

(***************************************************************************)
(* avg_range.py, analyze_avg_range (lines 5-73) and identify_streaks       *)
(* (lines 106-162).                                                        *)
(*                                                                         *)
(* A frame is the sequence of its rows in frame order; a row carries its   *)
(* index label idx (its position in the frame as read), its Date as the    *)
(* number of days since 1970-01-01 (the source's Day_Number) and its       *)
(* Change % in hundredths of a percent.  The frame has a Date column.      *)
(* Of the entry of a block, count, weeks and streaks are modelled; a       *)
(* week identifier is the character codes of its text; a streak's          *)
(* start_date and end_date are the day numbers of the dates they print.    *)
(***************************************************************************)
\* Fri 27 Dec 2024, Mon 30 Dec 2024, Tue 31 Dec 2024, Wed 1 Jan 2025.
RangeDates == {20084, 20087, 20088, 20089}

RangeChanges == {-15, 25, NaN}

\* Date.dt.dayofweek of a day number: 0 = Monday .. 6 = Sunday
\* (1970-01-01 was a Thursday).
DayOfWeek(d) == (d + 3) % 7

RECURSIVE InsertByDate(_, _)
\* A row put into a date-sorted sequence after the rows not later than it.
InsertByDate(sorted, row) ==
    IF sorted = <<>> THEN <<row>>
    ELSE IF Head(sorted).Date <= row.Date
         THEN <<Head(sorted)>> \o InsertByDate(Tail(sorted), row)
         ELSE <<row>> \o sorted

RECURSIVE SortByDate(_)
\* frame.sort_values('Date'): ascending by date; rows of one date keep their
\* frame order.
SortByDate(rows) ==
    IF rows = <<>> THEN <<>>
    ELSE InsertByDate(SortByDate(SubSeq(rows, 1, Len(rows) - 1)), rows[Len(rows)])

(***************************************************************************)
(* Calendar of the frames: pandas' Date.dt accessors on a day number.      *)
(* A Date is the number of days since 1970-01-01; 20084 is Friday 27       *)
(* December 2024 and 20091 is Friday 3 January 2025.                       *)
(***************************************************************************)
\* The civil date of a day number, in the proleptic Gregorian calendar.
CivilFromDays(z) ==
    LET s == z + 719468
        era == s \div 146097
        doe == s - era * 146097
        yoe == (doe - doe \div 1460 + doe \div 36524 - doe \div 146096) \div 365
        doy == doe - (365 * yoe + yoe \div 4 - yoe \div 100)
        mp == (5 * doy + 2) \div 153
        m == IF mp < 10 THEN mp + 3 ELSE mp - 9
    IN [year  |-> yoe + era * 400 + (IF m <= 2 THEN 1 ELSE 0),
        month |-> m,
        day   |-> doy - (153 * mp + 2) \div 5 + 1]

\* The day number of a civil date.
DaysFromCivil(y, m, d) ==
    LET yy == IF m <= 2 THEN y - 1 ELSE y
        era == yy \div 400
        yoe == yy - era * 400
        doy == (153 * (IF m > 2 THEN m - 3 ELSE m + 9) + 2) \div 5 + d - 1
        doe == yoe * 365 + yoe \div 4 - yoe \div 100 + doy
    IN era * 146097 + doe - 719468

\* Mutant of IsoYear: the calendar year of the day itself.
IsoYear_CalendarYear(d) == CivilFromDays(d).year

\* Date.dt.isocalendar(): the ISO year and ISO week of a day are those of
\* the Thursday of its Monday-to-Sunday week.
IsoThursday(d) == d - DayOfWeek(d) + 3
IsoYear(d) == CivilFromDays(IsoThursday(d)).year
IsoWeek(d) == (IsoThursday(d) - DaysFromCivil(IsoYear(d), 1, 1)) \div 7 + 1

\* Date.strftime('%d/%m/%Y') as the fields it prints, and
\* pd.to_datetime(text, format='%d/%m/%Y') of such a text.
FormatDate(d) == LET c == CivilFromDays(d) IN <<c.day, c.month, c.year>>
ParseDate(text) == DaysFromCivil(text[3], text[2], text[1])

RECURSIVE Digits(_)
\* str(n) of n >= 0, as character codes.
Digits(n) == IF n < 10 THEN <<48 + n>> ELSE Append(Digits(n \div 10), 48 + (n % 10))

\* df['Year'].astype(str) + '-' + df['Week_Number'].astype(str) (app.py:56)
\* and block_data['Year'].astype(str) + '-' + block_data['Week'].astype(str)
\* (avg_range.py:56): ISO year and ISO week.
WeekId(d) == Digits(IsoYear(d)) \o <<45>> \o Digits(IsoWeek(d))

\* f"{d['Date'].year}-{d['Date'].week}" (avg_range.py:143, 158): the year of
\* the date and its ISO week.
StreakWeekId(d) == Digits(CivilFromDays(d).year) \o <<45>> \o Digits(IsoWeek(d))

\* The dictionary of one streak (avg_range.py:139-144 and 154-159); the
\* list(set(...)) of week_ids is the set.
StreakInfo(current_streak) ==
    [length     |-> Len(current_streak),
     start_date |-> current_streak[1].Date,
     end_date   |-> current_streak[Len(current_streak)].Date,
     week_ids   |-> {StreakWeekId(current_streak[i].Date) : i \in 1..Len(current_streak)}]

\* Mutant of IdentifyStep: a gap of up to three days continues the streak.
IdentifyStep_GapUpToThree(st, row) ==
    LET current_day == row.Date IN
    IF st.prev_day = None \/ (current_day > st.prev_day /\ current_day <= st.prev_day + 3)
    THEN [st EXCEPT !.current_streak = Append(@, row), !.prev_day = current_day]
    ELSE [streaks        |-> IF Len(st.current_streak) > 1
                             THEN Append(st.streaks, StreakInfo(st.current_streak))
                             ELSE st.streaks,
          current_streak |-> <<row>>,
          prev_day       |-> current_day]

\* One iteration of the loop over the rows of a block (avg_range.py:130-150).
IdentifyStep(st, row) ==
    LET current_day == row.Date IN
    IF st.prev_day = None \/ current_day = st.prev_day + 1
    THEN [st EXCEPT !.current_streak = Append(@, row), !.prev_day = current_day]
    ELSE [streaks        |-> IF Len(st.current_streak) > 1
                             THEN Append(st.streaks, StreakInfo(st.current_streak))
                             ELSE st.streaks,
          current_streak |-> <<row>>,
          prev_day       |-> current_day]

RECURSIVE IdentifyAfter(_, _)
\* The loop state after the first k rows (avg_range.py:126-128 before any).
IdentifyAfter(rows, k) ==
    IF k = 0 THEN [streaks |-> <<>>, current_streak |-> <<>>, prev_day |-> None]
    ELSE IdentifyStep(IdentifyAfter(rows, k - 1), rows[k])

\* identify_streaks(block_data)
identify_streaks(block_data) ==
    IF Len(block_data) <= 1 THEN <<>>
    ELSE LET rows == SortByDate(block_data)
             st == IdentifyAfter(rows, Len(rows))
         IN IF Len(st.current_streak) > 1
            THEN Append(st.streaks, StreakInfo(st.current_streak))
            ELSE st.streaks

\* df.groupby('Range_Block') of the date-sorted frame: the rows of each
\* block, in frame order.  A row whose block is missing is in no group, and
\* the loop skips a missing key (avg_range.py:31-43).
RangeBlocks(frame) ==
    LET sorted == SortByDate(frame)
        Range_Block == [i \in 1..Len(sorted) |-> calculate_range_block(sorted[i].Change)]
        members(b) == {i \in 1..Len(sorted) : Range_Block[i] = b}
        \* the rows at the positions P of sorted, in order
        pick(P) == LET at[k \in 0..Len(sorted)] ==
                           IF k = 0 THEN <<>>
                           ELSE IF k \in P THEN Append(at[k - 1], sorted[k]) ELSE at[k - 1]
                   IN at[Len(sorted)]
        keys == {Range_Block[i] : i \in 1..Len(sorted)} \ {None, NaN}
    IN [b \in keys |-> pick(members(b))]

\* The entries of range_block_analysis, one per group (avg_range.py:40-68).
BlockAnalysis(groups) ==
    [b \in DOMAIN groups |->
        [count   |-> Len(groups[b]),
         weeks   |-> {WeekId(groups[b][i].Date) : i \in 1..Len(groups[b])},
         streaks |-> identify_streaks(groups[b])]]

\* The frames of up to MaxRows rows; row i has the index label i.
RangeFrames ==
    LET cells == [Date : RangeDates, Change : RangeChanges]
        label(q) == [i \in 1..Len(q) |-> [idx |-> i, Date |-> q[i].Date, Change |-> q[i].Change]]
    IN {label(q) : q \in SeqsUpTo(cells, MaxRows) \cup {<<>>}}

InitRange ==
    /\ pc = "start"
    /\ df \in RangeFrames
    /\ range_blocks = <<>>
    /\ range_block_analysis = <<>>
    /\ IdleScan /\ IdleWeeks /\ IdleBlock /\ IdleEntry

AnalyzeAvgRange ==
    /\ pc = "start"
    /\ range_blocks' = RangeBlocks(df)
    /\ range_block_analysis' = BlockAnalysis(range_blocks')
    /\ pc' = "done"
    /\ UNCHANGED <<df, scanVars, weekVars, blockVars, entryVars>>

NextRange == AnalyzeAvgRange

SpecRange == InitRange /\ [][NextRange]_vars

(***************************************************************************)
(* Properties of analyze_avg_range and identify_streaks.                   *)
(***************************************************************************)
\* The blocks that hold the row with index label i.
BlocksHolding(i) ==
    {b \in DOMAIN range_blocks : \E j \in 1..Len(range_blocks[b]) : range_blocks[b][j].idx = i}

\* C9: calculate_range_block returns None for a missing change; a record
\* with a missing change is in no range block, every record with a
\* non-missing change is a member of exactly one reported block, and the
\* member counts of the reported blocks sum to the number of records with a
\* non-missing change.
C9_MissingChangeInNoBlock ==
    pc = "done" =>
        LET G == range_blocks
            present == {i \in 1..Len(df) : ~IsNaN(df[i].Change)}
        IN /\ calculate_range_block(NaN) = None
           /\ DOMAIN range_block_analysis = DOMAIN G
           /\ \A b \in DOMAIN G :
                 /\ b # None /\ ~IsNaN(b)
                 /\ range_block_analysis[b].count = Len(G[b])
                 /\ \A j \in 1..Len(G[b]) : G[b][j] = df[G[b][j].idx]
                 /\ \A j \in 1..Len(G[b]) : \A k \in 1..Len(G[b]) :
                       G[b][j].idx = G[b][k].idx => j = k
           /\ \A i \in 1..Len(df) :
                 IF i \in present THEN Cardinality(BlocksHolding(i)) = 1
                 ELSE BlocksHolding(i) = {}
           /\ SumOver(DOMAIN range_block_analysis,
                      [b \in DOMAIN range_block_analysis |-> range_block_analysis[b].count])
                  = Cardinality(present)

C9_Witness ==
    /\ pc = "done"
    /\ \E i \in 1..Len(df) : IsNaN(df[i].Change)
    /\ Cardinality(DOMAIN range_block_analysis) = 2

\* The maximal stretches, of more than one member, of a date-ascending list
\* of days in which every day is the day after the one before it.
DayStretches(days) ==
    {p \in (1..Len(days)) \X (1..Len(days)) :
        /\ p[1] < p[2]
        /\ \A k \in (p[1] + 1)..p[2] : days[k] = days[k - 1] + 1
        /\ (p[1] > 1 => days[p[1]] # days[p[1] - 1] + 1)
        /\ (p[2] < Len(days) => days[p[2] + 1] # days[p[2]] + 1)}

\* C10: within a block's member dates in ascending order a streak continues
\* exactly when the gap to the previous member date is one calendar day, and
\* breaks otherwise: the streaks reported are the maximal stretches of
\* day-after-day members, in date order, and none holds both a Friday member
\* and the following Monday member.
C10_StreaksAreDayAdjacentStretches ==
    pc = "done" =>
        \A b \in DOMAIN range_block_analysis :
            LET rows == range_blocks[b]
                days == [k \in 1..Len(rows) |-> rows[k].Date]
                streaks == range_block_analysis[b].streaks
                seen == {[length |-> streaks[j].length, start_date |-> streaks[j].start_date,
                          end_date |-> streaks[j].end_date] : j \in 1..Len(streaks)}
            IN /\ seen = {[length |-> p[2] - p[1] + 1, start_date |-> days[p[1]],
                           end_date |-> days[p[2]]] : p \in DayStretches(days)}
               /\ Len(streaks) = Cardinality(DayStretches(days))
               /\ \A j \in 1..(Len(streaks) - 1) : streaks[j].end_date <= streaks[j + 1].start_date
               /\ \A k \in 2..Len(days) :
                     (DayOfWeek(days[k - 1]) = 4 /\ days[k] = days[k - 1] + 3) =>
                         ~\E j \in 1..Len(streaks) :
                              streaks[j].start_date <= days[k - 1] /\ days[k] <= streaks[j].end_date

C10_Witness ==
    /\ pc = "done"
    /\ \E b \in DOMAIN range_block_analysis :
          /\ range_block_analysis[b].count = 3
          /\ \E i \in 1..Len(df) : df[i].Date = 20084 /\ b \in BlocksHolding(i)
          /\ Len(range_block_analysis[b].streaks) = 1
          /\ range_block_analysis[b].streaks[1].length = 2
          /\ range_block_analysis[b].streaks[1].start_date = 20087
          /\ range_block_analysis[b].streaks[1].end_date = 20088

\* C25: for each range block, every week identifier listed in a streak's
\* week_ids is formed from the ISO year and ISO week of a member date and is
\* an element of that block's weeks set, also for member dates in an ISO week
\* that spans a calendar-year boundary (30 Dec 2024).
C25_StreakWeekIdsAmongBlockWeeks ==
    pc = "done" =>
        \A b \in DOMAIN range_block_analysis :
            \A j \in 1..Len(range_block_analysis[b].streaks) :
                LET s == range_block_analysis[b].streaks[j]
                    members == {range_blocks[b][i].Date : i \in 1..Len(range_blocks[b])}
                IN /\ s.week_ids \subseteq range_block_analysis[b].weeks
                   /\ \A w \in s.week_ids :
                         \E d \in members :
                             w = Digits(IsoYear(d)) \o <<45>> \o Digits(IsoWeek(d))

(***************************************************************************)
(* The tables given to the entry points.                                   *)
(*                                                                         *)
(* A table is [columns, rows].  columns gives the dtype of the Date        *)
(* column, of the Change % column (field Change) and of the Price, High    *)
(* and Low columns (field Price, one dtype for the three), or "absent".    *)
(* A row carries its index label idx, its Date as a day number and its     *)
(* Change % in hundredths of a percent; the value of an absent column is   *)
(* None; added names the columns a routine has put into the table.  In an  *)
(* "object" Change % column the cell c is the text of c/100   *)
(* followed by '%', and NaN is an empty cell; pd.read_csv gives such a     *)
(* column only when some cell is text, and "float64" otherwise.  Prices    *)
(* are present in every row and their values are not modelled.             *)
(***************************************************************************)
CsvDates == {20084, 20085, 20087, 20090, 20094}

\* The dates of the tables given to the other entry points.
CallDates == {20084, 20085, 20087}

CsvChanges == {-25, 25, NaN}

\* The column layouts: the file the application is written for, and the
\* files and frames with an already numeric or an absent column.
TextColumns == [Date |-> "object", Change |-> "object", Price |-> "object"]

PlainLayouts ==
    {[Date |-> "object", Change |-> "float64", Price |-> "float64"],
     [Date |-> "object", Change |-> "float64", Price |-> "absent"],
     [Date |-> "absent", Change |-> "float64", Price |-> "float64"],
     [Date |-> "object", Change |-> "absent", Price |-> "float64"],
     [Date |-> "object", Change |-> "object", Price |-> "float64"]}

\* The table with the columns cols whose Date and Change % cells are q.
Table(cols, q) ==
    [columns |-> cols,
     added   |-> {},
     rows    |-> [i \in 1..Len(q) |->
                    [idx    |-> i,
                     Date   |-> IF cols.Date = "absent" THEN None ELSE q[i].Date,
                     Change |-> IF cols.Change = "absent" THEN None ELSE q[i].Change]]]

\* pd.read_csv never yields an object column without a text cell, except
\* for a file without rows.
Readable(t) ==
    t.columns.Change = "object" =>
        (t.rows = <<>> \/ \E i \in 1..Len(t.rows) : ~IsNaN(t.rows[i].Change))

Tables(layouts, dates, n) ==
    LET cells == [Date : dates, Change : CsvChanges]
    IN {t \in {Table(c, q) : c \in layouts, q \in SeqsUpTo(cells, n) \cup {<<>>}} : Readable(t)}

\* The values of the Change % column, in row order.
ChangesOf(rows) == [i \in 1..Len(rows) |-> rows[i].Change]

Present(x) == ~IsNaN(x)

\* Series.count(), Series.sum() and Series.mean(): missing values are
\* skipped.  A mean is the fraction num / den, and 0 / 0 is the NaN that the
\* mean of no value is.
CountOfSeries(vals) == Len(SelectSeq(vals, Present))
SumOfSeries(vals) == SumSeq(SelectSeq(vals, Present))
MeanOfSeries(vals) == [num |-> SumOfSeries(vals), den |-> CountOfSeries(vals)]

\* The number 0 and the float NaN where a mean can stand.
ZeroMean == [num |-> 0, den |-> 1]
NaNMean == [num |-> 0, den |-> 0]

(***************************************************************************)
(* app.py, analyze_csv (lines 10-361).                                     *)
(***************************************************************************)
RECURSIVE StrLess(_, _)
\* a < b on strings.
StrLess(a, b) ==
    IF b = <<>> THEN FALSE
    ELSE IF a = <<>> THEN TRUE
    ELSE IF Head(a) # Head(b) THEN Head(a) < Head(b)
    ELSE StrLess(Tail(a), Tail(b))

RECURSIVE SortedStrings(_)
\* The strings of S in ascending order: the key order of groupby('Week_ID').
SortedStrings(S) ==
    IF S = {} THEN <<>>
    ELSE LET least == CHOOSE a \in S : \A b \in S \ {a} : StrLess(a, b)
         IN <<least>> \o SortedStrings(S \ {least})

\* (Year, Week_Number) pairs in ascending order.
PairLess(a, b) == a[1] < b[1] \/ (a[1] = b[1] /\ a[2] < b[2])

RECURSIVE SortedPairs(_)
\* The key order of groupby(['Year', 'Week_Number']) and of
\* sort_values(['Year', 'Week_Number']).
SortedPairs(S) ==
    IF S = {} THEN <<>>
    ELSE LET least == CHOOSE a \in S : \A b \in S \ {a} : PairLess(a, b)
         IN <<least>> \o SortedPairs(S \ {least})

\* Mutant of IdxMax: the last position that holds the greatest value.
IdxMax_LastOccurrence(vals) ==
    LET present == {i \in 1..Len(vals) : ~IsNaN(vals[i])}
    IN IF present = {} THEN None
       ELSE CHOOSE i \in present :
                /\ \A j \in present : vals[j] <= vals[i]
                /\ \A j \in present : j > i => vals[j] < vals[i]

\* Series.idxmax(), as a position: the first position that holds the greatest
\* non-missing value; None when every value is missing, where pandas raises.
IdxMax(vals) ==
    LET present == {i \in 1..Len(vals) : ~IsNaN(vals[i])}
    IN IF present = {} THEN None
       ELSE CHOOSE i \in present :
                /\ \A j \in present : vals[j] <= vals[i]
                /\ \A j \in present : j < i => vals[j] < vals[i]

Negated(vals) == [i \in 1..Len(vals) |-> IF IsNaN(vals[i]) THEN NaN ELSE -vals[i]]

\* Series.abs()
AbsOf(vals) == [i \in 1..Len(vals) |-> IF IsNaN(vals[i]) THEN NaN
                                       ELSE IF vals[i] < 0 THEN -vals[i] ELSE vals[i]]

\* Series.idxmin(): the first position that holds the least value.
IdxMin(vals) == IdxMax(Negated(vals))

\* The filter of app.py:24: only Monday to Friday is kept.
WeekdayRows(rows) == SelectSeq(rows, LAMBDA r : DayOfWeek(r.Date) < 5)

\* Mutant of AvgOrZero: the mean without the guard for an empty subset.
AvgOrZero_Unguarded(subset) == MeanOfSeries(subset)

\* subset.mean() if len(subset) > 0 else 0   (app.py:72-73 and 197-198)
AvgOrZero(subset) == IF Len(subset) > 0 THEN MeanOfSeries(subset) ELSE ZeroMean

\* The entry appended to weekly_analysis for one week group
\* (app.py:63-158); week_id is the key of the group.
WeekEntry(week_id, group) ==
    LET week_data == SortByDate(group)
        ch == ChangesOf(week_data)
        best_day_idx == IdxMax(ch)
        worst_day_idx == IdxMin(ch)
        most_volatile_idx == IdxMax(AbsOf(ch))
        st == LongestStreak("week", ch)
    IN [week_id       |-> week_id,
        start_date    |-> FormatDate(week_data[1].Date),
        end_date      |-> FormatDate(week_data[Len(week_data)].Date),
        total_days    |-> Len(week_data),
        positive_days |-> Len(SelectSeq(ch, Gt0)),
        negative_days |-> Len(SelectSeq(ch, Lt0)),
        neutral_days  |-> Len(SelectSeq(ch, LAMBDA x : x = 0)),
        avg_positive  |-> AvgOrZero(SelectSeq(ch, Gt0)),
        avg_negative  |-> AvgOrZero(SelectSeq(ch, Lt0)),
        best_day      |-> [date   |-> FormatDate(week_data[best_day_idx].Date),
                           change |-> ch[best_day_idx]],
        worst_day     |-> [date   |-> FormatDate(week_data[worst_day_idx].Date),
                           change |-> ch[worst_day_idx]],
        most_volatile_day    |-> FormatDate(week_data[most_volatile_idx].Date),
        most_volatile_change |-> ch[most_volatile_idx],
        week_change   |-> SumOfSeries(ch),
        max_streak    |-> st.max_streak,
        streak_type   |-> st.streak_type]

\* Mutant of SortWeeklyAnalysis: the entries in ascending order of end_date.
RECURSIVE SortWeeklyAnalysis_OldestFirst(_)
SortWeeklyAnalysis_OldestFirst(entries) ==
    IF entries = <<>> THEN <<>>
    ELSE LET rest == SortWeeklyAnalysis_OldestFirst(SubSeq(entries, 1, Len(entries) - 1))
             last == entries[Len(entries)]
             key(e) == ParseDate(e.end_date)
             before == SelectSeq(rest, LAMBDA e : key(e) <= key(last))
             after == SelectSeq(rest, LAMBDA e : key(e) > key(last))
         IN before \o <<last>> \o after

RECURSIVE SortWeeklyAnalysis(_)
\* weekly_analysis.sort(key=end_date as a date, reverse=True): descending,
\* entries of one key keeping their order (app.py:283).
SortWeeklyAnalysis(entries) ==
    IF entries = <<>> THEN <<>>
    ELSE LET rest == SortWeeklyAnalysis(SubSeq(entries, 1, Len(entries) - 1))
             last == entries[Len(entries)]
             key(e) == ParseDate(e.end_date)
             before == SelectSeq(rest, LAMBDA e : key(e) >= key(last))
             after == SelectSeq(rest, LAMBDA e : key(e) < key(last))
         IN before \o <<last>> \o after

\* What an entry point hands back: a returned value, or the exception that
\* leaves it.
Raised(e) == [kind |-> "exception", error |-> e]
Message(t) == [kind |-> "message", text |-> t]

\* n / d * 100 as a fraction; 0 / 0 is NaN.
Percent(n, d) == [num |-> 100 * n, den |-> d]

\* The row of day_of_week_stats for one day of day_order (app.py:187-207):
\* total_days is the count of non-missing changes; reindex gives a day
\* without records a row of NaN.
DayOfWeekRow(rows, day) ==
    LET group == SelectSeq(rows, LAMBDA r : DayOfWeek(r.Date) = day)
        x == ChangesOf(group)
        total_days == CountOfSeries(x)
        positive_days == Len(SelectSeq(x, Gt0))
        negative_days == Len(SelectSeq(x, Lt0))
    IN IF group = <<>>
       THEN [avg_change |-> NaNMean, total_days |-> NaN,
             positive_days |-> NaN, negative_days |-> NaN,
             positive_pct |-> NaNMean, negative_pct |-> NaNMean,
             avg_gain |-> NaNMean, avg_loss |-> NaNMean]
       ELSE [avg_change |-> MeanOfSeries(x), total_days |-> total_days,
             positive_days |-> positive_days, negative_days |-> negative_days,
             positive_pct |-> Percent(positive_days, total_days),
             negative_pct |-> Percent(negative_days, total_days),
             avg_gain |-> AvgOrZero(SelectSeq(x, Gt0)),
             avg_loss |-> AvgOrZero(SelectSeq(x, Lt0))]

\* df.groupby(['Year', 'Week_Number'])['Change %'].sum().reset_index(),
\* sorted by Year and Week_Number (app.py:211-214, pattern_analyzer.py:33-34).
\* The sum of a week without a present change is 0.
WeeklyChanges(rows) ==
    LET key(r) == <<IsoYear(r.Date), IsoWeek(r.Date)>>
        keys == SortedPairs({key(rows[i]) : i \in 1..Len(rows)})
    IN [k \in 1..Len(keys) |->
          [Year        |-> keys[k][1],
           Week_Number |-> keys[k][2],
           Change      |-> SumOfSeries(ChangesOf(SelectSeq(rows, LAMBDA r : key(r) = keys[k])))]]

\* Mutant of ConsecutiveWeeksStep: a zero-change week leaves both running
\* streaks as they are.
ConsecutiveWeeksStep_ZeroKeeps(st, change) ==
    IF Gt0(change)
    THEN LET p == st.current_positive_streak + 1 IN
         [st EXCEPT !.current_negative_streak = 0,
                    !.current_positive_streak = p,
                    !.consecutive_positive_weeks = IF p >= 2 THEN @ + 1 ELSE @]
    ELSE IF Lt0(change)
    THEN LET n == st.current_negative_streak + 1 IN
         [st EXCEPT !.current_positive_streak = 0,
                    !.current_negative_streak = n,
                    !.consecutive_negative_weeks = IF n >= 2 THEN @ + 1 ELSE @]
    ELSE st

\* One iteration of the loop over weekly_change_list (app.py:225-245).
ConsecutiveWeeksStep(st, change) ==
    IF Gt0(change)
    THEN LET p == st.current_positive_streak + 1 IN
         [st EXCEPT !.current_negative_streak = 0,
                    !.current_positive_streak = p,
                    !.consecutive_positive_weeks = IF p >= 2 THEN @ + 1 ELSE @]
    ELSE IF Lt0(change)
    THEN LET n == st.current_negative_streak + 1 IN
         [st EXCEPT !.current_positive_streak = 0,
                    !.current_negative_streak = n,
                    !.consecutive_negative_weeks = IF n >= 2 THEN @ + 1 ELSE @]
    ELSE [st EXCEPT !.current_positive_streak = 0,
                    !.current_negative_streak = 0]

RECURSIVE ConsecutiveWeeksAfter(_, _)
\* The counters after the first k weeks (app.py:220-223 before any).
ConsecutiveWeeksAfter(weekly_change_list, k) ==
    IF k = 0
    THEN [consecutive_positive_weeks |-> 0, consecutive_negative_weeks |-> 0,
          current_positive_streak |-> 0, current_negative_streak |-> 0]
    ELSE ConsecutiveWeeksStep(ConsecutiveWeeksAfter(weekly_change_list, k - 1),
                              weekly_change_list[k])

\* Count consecutive positive and negative weeks (app.py:219-251).
ConsecutiveWeeks(weekly_change_list) ==
    LET st == ConsecutiveWeeksAfter(weekly_change_list, Len(weekly_change_list))
    IN [consecutive_positive_weeks |-> st.consecutive_positive_weeks,
        consecutive_negative_weeks |-> st.consecutive_negative_weeks]

\* 2.0 percent, in hundredths (app.py:275-278).
StrongLimit == 200

StrengthClasses ==
    {"strong_positive_weeks", "weak_positive_weeks",
     "strong_negative_weeks", "weak_negative_weeks"}

\* Mutant of InStrengthClass: a weak week may be exactly at the limit.
InStrengthClass_WeakInclusive(class, w) ==
    IF class = "strong_positive_weeks" THEN w > StrongLimit
    ELSE IF class = "weak_positive_weeks" THEN w > 0 /\ w <= StrongLimit
    ELSE IF class = "strong_negative_weeks" THEN w < -StrongLimit
    ELSE w < 0 /\ w >= -StrongLimit

\* The mask of one class over the weekly total changes (app.py:275-278).
InStrengthClass(class, w) ==
    IF class = "strong_positive_weeks" THEN w > StrongLimit
    ELSE IF class = "weak_positive_weeks" THEN w > 0 /\ w < StrongLimit
    ELSE IF class = "strong_negative_weeks" THEN w < -StrongLimit
    ELSE w < 0 /\ w > -StrongLimit

\* weekly_patterns without avg_weekly_range (app.py:273-279).
WeeklyPatterns(weekly) ==
    [class \in StrengthClasses |->
        Len(SelectSeq(weekly, LAMBDA w : InStrengthClass(class, w)))]

\* analyze_csv(file_path) for the file that pd.read_csv reads as the table
\* file.  Of its report, the parts below are kept; weekly_groups is the
\* local of that name.
analyze_csv(file) ==
    IF file.columns.Change = "absent"
    THEN Message("No 'Change %' column found in the CSV file.")
    ELSE IF file.columns.Date = "absent" THEN Raised("KeyError")
    ELSE IF file.columns.Change # "object" THEN Raised("AttributeError")
    ELSE IF file.columns.Price = "absent" THEN Raised("KeyError")
    ELSE IF file.columns.Price # "object" THEN Raised("AttributeError")
    ELSE
    LET rows == WeekdayRows(file.rows)
        x == ChangesOf(rows)
        total_count == CountOfSeries(x)
        ids == {WeekId(rows[i].Date) : i \in 1..Len(rows)}
        weekly_groups == [k \in ids |-> SelectSeq(rows, LAMBDA r : WeekId(r.Date) = k)]
        order == SortedStrings(ids)
    IN IF total_count = 0
       THEN Message("No valid data found in the Change % column.")
       ELSE IF \E k \in ids : CountOfSeries(ChangesOf(weekly_groups[k])) = 0
       THEN Raised("ValueError")
       ELSE LET st == LongestStreak("overall", x)
                weekly_changes_df == WeeklyChanges(rows)
            IN [kind              |-> "report",
                total_count       |-> total_count,
                positive_count    |-> Len(SelectSeq(x, Gt0)),
                negative_count    |-> Len(SelectSeq(x, Lt0)),
                neutral_count     |-> Len(SelectSeq(x, LAMBDA v : v = 0)),
                weekly_groups     |-> weekly_groups,
                weekly_analysis   |-> SortWeeklyAnalysis(
                                          [k \in 1..Len(order) |->
                                              WeekEntry(order[k], weekly_groups[order[k]])]),
                max_streak        |-> st.max_streak,
                streak_type       |-> st.streak_type,
                day_of_week_stats |-> [day \in 0..4 |-> DayOfWeekRow(rows, day)],
                weekly_changes_df |-> weekly_changes_df,
                weekly_change_list |-> [k \in 1..Len(weekly_changes_df) |->
                                           weekly_changes_df[k].Change],
                consecutive_weeks |-> ConsecutiveWeeks(
                                          [k \in 1..Len(weekly_changes_df) |->
                                              weekly_changes_df[k].Change]),
                weekly_patterns   |-> WeeklyPatterns(
                                          [k \in 1..Len(weekly_changes_df) |->
                                              weekly_changes_df[k].Change])]

(***************************************************************************)
(* pattern_analyzer.py, analyze_patterns (lines 5-59) with                 *)
(* analyze_day_of_week (141-233) and analyze_monthly_patterns (235-299);   *)
(* app.py, the route pattern_analysis (394-453); avg_range.py,             *)
(* analyze_avg_range (5-73) called with a table.                           *)
(*                                                                         *)
(* Rounded statistics are integers in hundredths, as in                    *)
(* analyze_consecutive_weeks.  Of the results of analyze_patterns the      *)
(* weekly series handed to analyze_consecutive_weeks, the day statistics   *)
(* and the daily statistics of the months are kept.                        *)
(***************************************************************************)
\* round(series.mean(), 2)
RoundedMean(vals) ==
    IF CountOfSeries(vals) = 0 THEN NaN
    ELSE RoundDiv(SumOfSeries(vals), CountOfSeries(vals))

\* round((x > 0).mean() * 100, 2) for the boolean series hits of a group x:
\* the mean of a boolean series runs over every row of the group.
RoundedShare(hits, x) == RoundDiv(10000 * hits, Len(x))

\* The entry of one group of day_stats or monthly_stats
\* (pattern_analyzer.py:158-165, 221-228 and 260-266, 288-294).
GroupStats(x) ==
    [mean     |-> RoundedMean(x),
     positive |-> RoundedShare(Len(SelectSeq(x, Gt0)), x),
     negative |-> RoundedShare(Len(SelectSeq(x, Lt0)), x),
     count    |-> CountOfSeries(x)]

\* day_results: the days of day_order that have a group.
DayResults(rows) ==
    LET days == {d \in 0..4 : \E i \in 1..Len(rows) : DayOfWeek(rows[i].Date) = d}
    IN [d \in days |->
          GroupStats(ChangesOf(SelectSeq(rows, LAMBDA r : DayOfWeek(r.Date) = d)))]

\* monthly_results: the months that have a group, by month number.
MonthlyResults(rows) ==
    LET Month(r) == CivilFromDays(r.Date).month
        months == {Month(rows[i]) : i \in 1..Len(rows)}
    IN [m \in months |->
          GroupStats(ChangesOf(SelectSeq(rows, LAMBDA r : Month(r) = m)))]

\* Mutant of CallerFrame: the routine works on the caller's table itself.
CallerFrame_NoCopy(frame, work) == work

\* The caller's table after a call that worked on work: the routines work
\* on df.copy() (pattern_analyzer.py:21, avg_range.py:23).
CallerFrame(frame, work) == frame

\* The table a routine works on: after pd.to_datetime and sort_values('Date')
\* (pattern_analyzer.py:24-25, avg_range.py:26-28), with the columns the
\* routine puts into it.
WorkFrame(frame, new_columns) ==
    IF frame.columns.Date = "absent"
    THEN [frame EXCEPT !.added = @ \cup new_columns]
    ELSE [columns |-> [frame.columns EXCEPT !.Date = "datetime64"],
          added   |-> frame.added \cup new_columns,
          rows    |-> SortByDate(frame.rows)]

\* The columns analyze_patterns and the routines it calls put into df.
PatternColumns ==
    {"Week_Number", "Year", "Day_of_Week", "Month", "Month_Name", "Year_Month",
     "Abs_Change", "High_Volatility"}

\* analyze_patterns(df).  A Change % column of text makes the means of
\* analyze_day_of_week raise.
analyze_patterns(frame) ==
    IF frame.columns.Date = "absent" \/ frame.columns.Change = "absent"
    THEN [kind |-> "error", error |-> "Required columns not found in data"]
    ELSE IF frame.columns.Change = "object" THEN Raised("TypeError")
    ELSE LET rows == WorkFrame(frame, PatternColumns).rows
         IN [kind           |-> "results",
             weekly_changes |-> WeeklyChanges(rows),
             day_of_week    |-> [day_stats |-> DayResults(rows)],
             monthly        |-> [daily_stats |-> MonthlyResults(rows)]]

\* The normalisation of the route (app.py:413-420): a column is converted
\* when its first cell is a string; iloc[0] of a table without rows raises.
RouteNormalised(file) ==
    LET first == file.rows[1].Change
    IN [file EXCEPT
          !.columns.Change = IF @ = "object" /\ ~IsNaN(first) THEN "float64" ELSE @,
          !.columns.Price  = IF @ = "object" THEN "float64" ELSE @]

\* pattern_analysis(filename) for an uploaded file that reads as the table
\* file: every exception is caught and reported (app.py:452-453).
pattern_analysis(file) ==
    IF file.columns.Date = "absent" \/ file.columns.Change = "absent"
    THEN Message("Required columns (Date, Change %) not found in the CSV file.")
    ELSE IF file.rows = <<>> THEN Message("Error analyzing patterns: IndexError")
    ELSE LET pattern_results == analyze_patterns(RouteNormalised(file))
         IN IF pattern_results.kind = "exception"
            THEN Message("Error analyzing patterns: TypeError")
            ELSE [kind |-> "page", pattern_results |-> pattern_results]

\* Mutant of analyze_avg_range: the Date column is required as well.
analyze_avg_range_DateRequired(frame) ==
    IF frame.columns.Change = "absent" \/ frame.columns.Date = "absent"
    THEN [kind |-> "error", error |-> "Required column 'Change %' not found in data"]
    ELSE [kind |-> "results", range_blocks |-> BlockAnalysis(RangeBlocks(frame.rows))]

\* analyze_avg_range(df) for a table: without a Date column the frame is not
\* sorted and a block has no streaks (avg_range.py:19-28, 60).
analyze_avg_range(frame) ==
    IF frame.columns.Change = "absent"
    THEN [kind |-> "error", error |-> "Required column 'Change %' not found in data"]
    ELSE LET groups == RangeBlocks(WorkFrame(frame, {"Range_Block"}).rows)
         IN [kind         |-> "results",
             range_blocks |->
                 IF frame.columns.Date = "absent"
                 THEN [b \in DOMAIN groups |->
                          [count |-> Len(groups[b]), weeks |-> {}, streaks |-> <<>>]]
                 ELSE BlockAnalysis(groups)]

(***************************************************************************)
(* The entry points as actions.  A call appends what it was given and what *)
(* it handed back to history.                                              *)
(***************************************************************************)
Called(given, result) == Append(history, [call |-> call, given |-> given, output |-> result])

\* analyze_csv reads its file anew (app.py:13); the file is not written.
AnalyzeCsv ==
    /\ pc = "start" /\ call = "analyze_csv"
    /\ output' = analyze_csv(dataset)
    /\ history' = Called(dataset, output')
    /\ pc' = "done"
    /\ UNCHANGED <<call, dataset, scanVars, weekVars, blockVars, rangeVars>>

PatternAnalysis ==
    /\ pc = "start" /\ call = "pattern_analysis"
    /\ output' = pattern_analysis(dataset)
    /\ history' = Called(dataset, output')
    /\ pc' = "done"
    /\ UNCHANGED <<call, dataset, scanVars, weekVars, blockVars, rangeVars>>

AnalyzePatterns ==
    /\ pc = "start" /\ call = "analyze_patterns"
    /\ output' = analyze_patterns(dataset)
    /\ dataset' = IF output'.kind = "error" THEN dataset
                  ELSE CallerFrame(dataset, WorkFrame(dataset, PatternColumns))
    /\ history' = Called(dataset, output')
    /\ pc' = "done"
    /\ UNCHANGED <<call, scanVars, weekVars, blockVars, rangeVars>>

AnalyzeAvgRangeOfFrame ==
    /\ pc = "start" /\ call = "analyze_avg_range"
    /\ output' = analyze_avg_range(dataset)
    /\ dataset' = IF output'.kind = "error" THEN dataset
                  ELSE CallerFrame(dataset, WorkFrame(dataset, {"Range_Block"}))
    /\ history' = Called(dataset, output')
    /\ pc' = "done"
    /\ UNCHANGED <<call, scanVars, weekVars, blockVars, rangeVars>>

\* The caller calls one of the two routines again with the table it holds.
CallAgain ==
    /\ pc = "done" /\ call \in {"analyze_patterns", "analyze_avg_range"}
    /\ Len(history) < MaxCalls
    /\ call' \in {"analyze_patterns", "analyze_avg_range"}
    /\ pc' = "start"
    /\ UNCHANGED <<dataset, output, history, scanVars, weekVars, blockVars, rangeVars>>

\* SpecCsv: analyze_csv on the files the application is written for.
InitCsv ==
    /\ pc = "start"
    /\ call = "analyze_csv"
    /\ dataset \in Tables({TextColumns}, CsvDates, MaxRecords)
    /\ output = <<>>
    /\ history = <<>>
    /\ IdleScan /\ IdleWeeks /\ IdleBlock /\ IdleRange

NextCsv == AnalyzeCsv

SpecCsv == InitCsv /\ [][NextCsv]_vars

\* SpecCalls: every entry point, on files and frames of every layout.  A
\* frame passed to analyze_patterns or analyze_avg_range has numeric changes
\* and at least one row.
CallFiles == Tables({TextColumns} \cup PlainLayouts, CallDates, MaxPlainRows)

CallFrames == {t \in CallFiles : t.columns.Change # "object" /\ t.rows # <<>>}

InitCalls ==
    /\ pc = "start"
    /\ \/ call \in {"analyze_csv", "pattern_analysis"} /\ dataset \in CallFiles
       \/ call \in {"analyze_patterns", "analyze_avg_range"} /\ dataset \in CallFrames
    /\ output = <<>>
    /\ history = <<>>
    /\ IdleScan /\ IdleWeeks /\ IdleBlock /\ IdleRange

NextCalls ==
    \/ AnalyzeCsv
    \/ PatternAnalysis
    \/ AnalyzePatterns
    \/ AnalyzeAvgRangeOfFrame
    \/ CallAgain

SpecCalls == InitCalls /\ [][NextCalls]_vars

(***************************************************************************)
(* pattern_analyzer.py: the transitions of analyze_day_of_week (lines      *)
(* 167-215) and analyze_volatility_clustering (lines 301-376), on the      *)
(* frame analyze_patterns hands them: sorted by date, every row still      *)
(* carrying the index label it had in the caller's table.  The threshold   *)
(* is compared exactly and its rounded value is not kept.                  *)
(***************************************************************************)
\* Monday 30 Dec 2024 to Thursday 2 Jan 2025.
DayDates == {20087, 20088, 20089, 20090}

DayChanges == {-100, 0, 25, 100, NaN}

MaxDayRows == 3

\* idx + 1 in df.index, and the row df.loc[idx + 1]: the row that carries the
\* label after idx.
HasLabel(rows, label) == \E k \in 1..Len(rows) : rows[k].idx = label
Loc(rows, label) == rows[CHOOSE k \in 1..Len(rows) : rows[k].idx = label]

\* The rows of current_day for which idx + 1 is a label whose row is of
\* next_day (pattern_analyzer.py:176-179); days are numbered as DayOfWeek.
TransitionRows(rows, current_day) ==
    SelectSeq(rows, LAMBDA r :
        /\ DayOfWeek(r.Date) = current_day
        /\ HasLabel(rows, r.idx + 1)
        /\ DayOfWeek(Loc(rows, r.idx + 1).Date) = current_day + 1)

\* The condition a current change falls under (pattern_analyzer.py:190, 195).
ConditionHolds(condition, current_change) ==
    IF condition = "after_positive" THEN Gt0(current_change) ELSE Lt0(current_change)

\* The counters of one condition of one key (pattern_analyzer.py:190-199).
TransitionStats(rows, from, condition) ==
    LET cur  == SelectSeq(from, LAMBDA r : ConditionHolds(condition, r.Change))
        next == [k \in 1..Len(cur) |-> Loc(rows, cur[k].idx + 1).Change]
    IN [count         |-> Len(cur),
        next_positive |-> Len(SelectSeq(next, Gt0)),
        avg_change    |-> next]

\* round(sum(q) / len(q), 2) of a non-empty list: NaN when a value is missing.
RoundedAvgOfList(q) ==
    IF \E j \in 1..Len(q) : IsNaN(q[j]) THEN NaN
    ELSE RoundDiv(SumSeq(q), Len(q))

\* transition_results (pattern_analyzer.py:201-215): a key exists when some
\* pair was found, a condition when its count is positive.
Transitions(rows) ==
    LET keys == {d \in 0..3 : TransitionRows(rows, d) # <<>>}
    IN [d \in keys |->
          LET from == TransitionRows(rows, d)
              stats == [c \in {"after_positive", "after_negative"} |->
                           TransitionStats(rows, from, c)]
          IN [c \in {x \in DOMAIN stats : stats[x].count > 0} |->
                [count         |-> stats[c].count,
                 prob_positive |-> RoundDiv(10000 * stats[c].next_positive, stats[c].count),
                 avg_change    |-> RoundedAvgOfList(stats[c].avg_change)]]]

analyze_day_of_week(rows) ==
    [kind        |-> "day_of_week",
     day_stats   |-> DayResults(rows),
     transitions |-> Transitions(rows)]

RECURSIVE InsertAscending(_, _)
InsertAscending(sorted, v) ==
    IF sorted = <<>> THEN <<v>>
    ELSE IF Head(sorted) <= v
         THEN <<Head(sorted)>> \o InsertAscending(Tail(sorted), v)
         ELSE <<v>> \o sorted

RECURSIVE SortAscending(_)
SortAscending(q) ==
    IF q = <<>> THEN <<>>
    ELSE InsertAscending(SortAscending(Tail(q)), Head(q))

\* Four times Series.quantile(0.75): linear interpolation between the order
\* statistics around position 0.75 * (n - 1) of the values present; NaN for
\* a series without values.
Quantile75Times4(vals) ==
    LET s == SortAscending(SelectSeq(vals, Present))
        n == Len(s)
        p == 3 * (n - 1)
        lo == (p \div 4) + 1
    IN IF n = 0 THEN NaN
       ELSE IF p % 4 = 0 THEN 4 * s[lo]
       ELSE 4 * s[lo] + (p % 4) * (s[lo + 1] - s[lo])

\* df['High_Volatility'] of a row (pattern_analyzer.py:314-318); a comparison
\* with a missing value is false.
HighVolatility(rows, r) ==
    LET threshold4 == Quantile75Times4(AbsOf(ChangesOf(rows)))
    IN ~IsNaN(threshold4) /\ ~IsNaN(r.Change) /\ 4 * AbsOf(<<r.Change>>)[1] > threshold4

\* Mutant of TotalAfterHighVol: every next day is in the denominator.
TotalAfterHighVol_EveryNextDay(positive, negative, next) == Len(next)

\* total_after_high_vol (pattern_analyzer.py:354).
TotalAfterHighVol(positive, negative, next) == Len(positive) + Len(negative)

analyze_volatility_clustering(rows) ==
    LET high_vol_days == SelectSeq(rows, LAMBDA r : HighVolatility(rows, r))
        with_next == SelectSeq(high_vol_days, LAMBDA r : HasLabel(rows, r.idx + 1))
        next_day_high_vol_count ==
            Len(SelectSeq(with_next, LAMBDA r : HighVolatility(rows, Loc(rows, r.idx + 1))))
        next == [k \in 1..Len(with_next) |-> Loc(rows, with_next[k].idx + 1).Change]
        positive == SelectSeq(next, Gt0)
        negative == SelectSeq(next, Lt0)
        total_after_high_vol == TotalAfterHighVol(positive, negative, next)
        clustering ==
            [prob_high_vol_after_high_vol |->
                 RoundDiv(10000 * next_day_high_vol_count, Len(high_vol_days)),
             high_vol_days_count          |-> Len(high_vol_days),
             consecutive_high_vol_count   |-> next_day_high_vol_count]
        after ==
            [prob_positive       |-> RoundDiv(10000 * Len(positive), total_after_high_vol),
             prob_negative       |-> RoundDiv(10000 * total_after_high_vol
                                                  - 10000 * Len(positive),
                                              total_after_high_vol),
             avg_positive_change |-> IF positive # <<>>
                                     THEN RoundDiv(SumSeq(positive), Len(positive)) ELSE 0,
             avg_negative_change |-> IF negative # <<>>
                                     THEN RoundDiv(SumSeq(negative), Len(negative)) ELSE 0]
    IN [kind                  |-> "volatility",
        volatility_clustering |-> IF Len(high_vol_days) > 0 THEN <<clustering>> ELSE <<>>,
        after_high_volatility |-> IF total_after_high_vol > 0 THEN <<after>> ELSE <<>>]

\* SpecDays: the two routines on the frames analyze_patterns makes of the
\* tables of up to MaxDayRows rows of distinct dates, in every row order, and
\* of the longer files.
DayTables ==
    LET cells == [Date : DayDates, Change : DayChanges]
        layout == [Date |-> "object", Change |-> "float64", Price |-> "absent"]
    IN {Table(layout, q) : q \in {s \in SeqsUpTo(cells, MaxDayRows) :
                                     \A i \in 1..Len(s) : \A j \in 1..Len(s) :
                                         i # j => s[i].Date # s[j].Date}}

\* Longer files, in date order or newest first: Monday 30 Dec 2024 to Friday
\* 3 Jan 2025 and Monday 6 Jan 2025.
LongDates == <<20087, 20088, 20089, 20090, 20091, 20094>>

LongChanges == {-100, 0, 25, NaN}

LongTables ==
    LET n == Len(LongDates)
        layout == [Date |-> "object", Change |-> "float64", Price |-> "absent"]
        file(first, ch) ==
            [i \in 1..n |->
                [Date   |-> IF first = "oldest" THEN LongDates[i] ELSE LongDates[n + 1 - i],
                 Change |-> ch[i]]]
    IN {Table(layout, file(first, ch)) :
            first \in {"oldest", "newest"}, ch \in [1..n -> LongChanges]}

DayFrames == {WorkFrame(t, PatternColumns) : t \in DayTables \cup LongTables}

InitDays ==
    /\ pc = "start"
    /\ call \in {"analyze_day_of_week", "analyze_volatility_clustering"}
    /\ dataset \in DayFrames
    /\ output = <<>>
    /\ history = <<>>
    /\ IdleScan /\ IdleWeeks /\ IdleBlock /\ IdleRange

AnalyzeDayOfWeek ==
    /\ pc = "start" /\ call = "analyze_day_of_week"
    /\ output' = analyze_day_of_week(dataset.rows)
    /\ pc' = "done"
    /\ UNCHANGED <<call, dataset, history, scanVars, weekVars, blockVars, rangeVars>>

AnalyzeVolatilityClustering ==
    /\ pc = "start" /\ call = "analyze_volatility_clustering"
    /\ output' = analyze_volatility_clustering(dataset.rows)
    /\ pc' = "done"
    /\ UNCHANGED <<call, dataset, history, scanVars, weekVars, blockVars, rangeVars>>

NextDays == AnalyzeDayOfWeek \/ AnalyzeVolatilityClustering

SpecDays == InitDays /\ [][NextDays]_vars

(***************************************************************************)
(* Properties of analyze_csv.                                              *)
(***************************************************************************)
Reported == pc = "done" /\ call = "analyze_csv" /\ output.kind = "report"

\* The Monday of the Monday-to-Sunday week a day lies in.
MondayOf(d) == d - DayOfWeek(d)

\* The dates of the records of the week group that a weekly entry describes.
DatesOfEntry(e) ==
    LET group == output.weekly_groups[e.week_id]
    IN {group[i].Date : i \in 1..Len(group)}

\* The days Monday 30 December 2024 .. Friday 3 January 2025.
NewYearWeek == 20087..20091

\* C11: week buckets are keyed by (ISO year, ISO week): two records are in
\* the same bucket of analyze_csv exactly when they lie in the same
\* Monday-to-Sunday week, the weekly series has one entry per such week under
\* the key (ISO year, ISO week) of its days, and a record dated Monday 30
\* December 2024 to Friday 3 January 2025 is in the bucket 2025-1, which is
\* the ISO week of each of these five days.
C11_WeekBucketsByIsoYearAndWeek ==
    /\ \A d \in NewYearWeek : IsoYear(d) = 2025 /\ IsoWeek(d) = 1
    /\ Reported =>
          LET G == output.weekly_groups
              rows == WeekdayRows(dataset.rows)
              series == output.weekly_changes_df
              bucket(r) == {k \in DOMAIN G : \E j \in 1..Len(G[k]) : G[k][j] = r}
          IN /\ \A i \in 1..Len(rows) : Cardinality(bucket(rows[i])) = 1
             /\ \A k \in DOMAIN G : \A j \in 1..Len(G[k]) :
                   \E i \in 1..Len(rows) : rows[i] = G[k][j]
             /\ \A i \in 1..Len(rows) : \A j \in 1..Len(rows) :
                   bucket(rows[i]) = bucket(rows[j])
                       <=> MondayOf(rows[i].Date) = MondayOf(rows[j].Date)
             /\ \A i \in 1..Len(rows) :
                   rows[i].Date \in NewYearWeek =>
                       bucket(rows[i]) = {<<50, 48, 50, 53, 45, 49>>}
             /\ \A i \in 1..Len(rows) :
                   Cardinality({k \in 1..Len(series) :
                       /\ series[k].Year = IsoYear(rows[i].Date)
                       /\ series[k].Week_Number = IsoWeek(rows[i].Date)}) = 1
             /\ Len(series) = Cardinality({MondayOf(rows[i].Date) : i \in 1..Len(rows)})
             /\ \A k \in 1..Len(series) :
                   series[k].Year = 2025 /\ series[k].Week_Number = 1 =>
                       \E i \in 1..Len(rows) : MondayOf(rows[i].Date) = 20087

C11_Witness ==
    /\ Reported
    /\ Cardinality(DOMAIN output.weekly_groups) = 2
    /\ \E k \in DOMAIN output.weekly_groups :
          LET G == output.weekly_groups[k]
          IN /\ \E j \in 1..Len(G) : G[j].Date = 20087
             /\ \E j \in 1..Len(G) : G[j].Date = 20090

\* The sum of the values of f over the positions P.
SumAt(P, f) == SumOver(P, [i \in P |-> f[i]])

\* The mean of the values of x at the positions P, and 0 when P is empty.
MeanAtOrZero(P, x) ==
    IF P = {} THEN ZeroMean ELSE [num |-> SumAt(P, x), den |-> Cardinality(P)]

\* C14: for every week group and every day-of-week group, average-gain is
\* the mean of the positive changes of the group and exactly 0 when it has
\* none, and average-loss is the mean of its negative changes and exactly 0
\* when it has none; neither is ever NaN.
C14_AverageGainZeroWhenNoGain ==
    Reported =>
        /\ \A n \in 1..Len(output.weekly_analysis) :
              LET e == output.weekly_analysis[n]
                  x == ChangesOf(output.weekly_groups[e.week_id])
              IN /\ e.avg_positive = MeanAtOrZero({i \in 1..Len(x) : Gt0(x[i])}, x)
                 /\ e.avg_negative = MeanAtOrZero({i \in 1..Len(x) : Lt0(x[i])}, x)
                 /\ e.avg_positive # NaNMean /\ e.avg_negative # NaNMean
        /\ \A day \in 0..4 :
              LET rows == WeekdayRows(dataset.rows)
                  members == {i \in 1..Len(rows) : DayOfWeek(rows[i].Date) = day}
                  x == ChangesOf(rows)
                  row == output.day_of_week_stats[day]
              IN members # {} =>
                    /\ row.avg_gain = MeanAtOrZero({i \in members : Gt0(x[i])}, x)
                    /\ row.avg_loss = MeanAtOrZero({i \in members : Lt0(x[i])}, x)
                    /\ row.avg_gain # NaNMean /\ row.avg_loss # NaNMean

C14_Witness ==
    /\ Reported
    /\ \E n \in 1..Len(output.weekly_analysis) :
          LET e == output.weekly_analysis[n]
          IN /\ e.total_days = 3 /\ e.negative_days = 3
             /\ e.avg_positive = ZeroMean
             /\ e.avg_negative = [num |-> -75, den |-> 3]
    /\ output.day_of_week_stats[0].avg_gain = ZeroMean
    /\ output.day_of_week_stats[0].avg_loss.den > 0

\* The earliest date among the rows of group whose value under f is v.
EarliestWith(group, f, v) ==
    LET at == {i \in 1..Len(group) : f[i] = v}
    IN CHOOSE d \in {group[i].Date : i \in at} : \A i \in at : d <= group[i].Date

\* The greatest of a non-empty set of numbers.
Greatest(S) == CHOOSE m \in S : \A v \in S : v <= m

\* C15: for each week group, the best day, the worst day and the most
\* volatile day are the earliest-dated record that attains the greatest
\* change, the least change and the greatest absolute change of the week; a
\* later-dated record of equal value is never chosen, in whatever order the
\* file lists its rows.
C15_ExtremeDayIsEarliest ==
    Reported =>
        \A n \in 1..Len(output.weekly_analysis) :
            LET e == output.weekly_analysis[n]
                group == output.weekly_groups[e.week_id]
                x == ChangesOf(group)
                present == {i \in 1..Len(x) : ~IsNaN(x[i])}
                top == Greatest({x[i] : i \in present})
                bottom == -Greatest({-x[i] : i \in present})
                swing == Greatest({AbsOf(x)[i] : i \in present})
            IN /\ e.best_day.change = top
               /\ ParseDate(e.best_day.date) = EarliestWith(group, x, top)
               /\ e.worst_day.change = bottom
               /\ ParseDate(e.worst_day.date) = EarliestWith(group, x, bottom)
               /\ ParseDate(e.most_volatile_day) = EarliestWith(group, AbsOf(x), swing)
               /\ e.most_volatile_change \in {swing, -swing}
               /\ \E i \in present :
                     /\ group[i].Date = ParseDate(e.most_volatile_day)
                     /\ x[i] = e.most_volatile_change

\* Two rows of a week hold its greatest change, and the file lists the
\* later-dated of them first; the earlier one is the best day.
C15_Witness ==
    /\ Reported
    /\ \E i \in 1..Len(dataset.rows) : \E j \in 1..Len(dataset.rows) :
          /\ i < j
          /\ dataset.rows[i].Date = 20090 /\ dataset.rows[j].Date = 20087
          /\ dataset.rows[i].Change = 25 /\ dataset.rows[j].Change = 25
    /\ \E n \in 1..Len(output.weekly_analysis) :
          LET e == output.weekly_analysis[n]
          IN /\ e.total_days = 3
             /\ e.best_day = [date |-> <<30, 12, 2024>>, change |-> 25]
             /\ e.worst_day.change = -25
             /\ e.most_volatile_day = <<30, 12, 2024>>

\* C16: the weekly breakdown lists the week groups most recent first: every
\* date of an entry is later than every date of the entry listed after it,
\* in whatever order the file lists its rows; and the weekly net-change
\* series is in ascending order of (ISO year, ISO week).
C16_WeeklyBreakdownNewestFirst ==
    Reported =>
        /\ \A n \in 1..(Len(output.weekly_analysis) - 1) :
              \A a \in DatesOfEntry(output.weekly_analysis[n]) :
                  \A b \in DatesOfEntry(output.weekly_analysis[n + 1]) : a > b
        /\ Len(output.weekly_analysis) = Cardinality(DOMAIN output.weekly_groups)
        /\ \A n \in 1..(Len(output.weekly_changes_df) - 1) :
              LET s == output.weekly_changes_df
              IN \/ s[n].Year < s[n + 1].Year
                 \/ s[n].Year = s[n + 1].Year /\ s[n].Week_Number < s[n + 1].Week_Number
        /\ output.weekly_change_list =
              [n \in 1..Len(output.weekly_changes_df) |-> output.weekly_changes_df[n].Change]

\* Three weeks whose rows the file lists oldest first.
C16_Witness ==
    /\ Reported
    /\ Len(dataset.rows) = 3
    /\ dataset.rows[1].Date = 20084 /\ dataset.rows[2].Date = 20087
    /\ dataset.rows[3].Date = 20094
    /\ Len(output.weekly_analysis) = 3
    /\ output.weekly_analysis[1].end_date = <<6, 1, 2025>>
    /\ output.weekly_analysis[3].end_date = <<27, 12, 2024>>
    /\ output.weekly_changes_df[1].Year = 2024 /\ output.weekly_changes_df[3].Week_Number = 2

(***************************************************************************)
(* Properties of the entry points.                                         *)
(***************************************************************************)
Returned(c) == pc = "done" /\ call = c

\* The entry point did not end in an error: it handed back statistics.
HasStatistics == output.kind \in {"report", "results", "page"}

\* The table that the caller gave to the call under way.
Given == history[Len(history)].given

\* The table without its Saturday and Sunday rows.
WithoutWeekends(t) ==
    IF t.columns.Date = "absent" THEN t ELSE [t EXCEPT !.rows = WeekdayRows(@)]

\* What the entry point c hands back for the table t.
ResultOf(c, t) ==
    IF c = "analyze_csv" THEN analyze_csv(t)
    ELSE IF c = "pattern_analysis" THEN pattern_analysis(t)
    ELSE IF c = "analyze_patterns" THEN analyze_patterns(t)
    ELSE analyze_avg_range(t)

\* C12: records dated Saturday or Sunday are dropped before any analysis
\* runs: the statistics that analyze_csv, analyze_patterns and
\* analyze_avg_range hand back for a table are those of the table without
\* its weekend records.
C12_WeekendRecordsDropped ==
    (pc = "done" /\ call \in {"analyze_csv", "analyze_patterns", "analyze_avg_range"}
        /\ HasStatistics /\ ResultOf(call, WithoutWeekends(Given)).kind = output.kind) =>
        output = ResultOf(call, WithoutWeekends(Given))

\* round(100 * hits / n, 2) in hundredths, for n > 0.
ShareOf(hits, n) == RoundDiv(10000 * hits, n)

\* C13: a record whose change is missing is excluded from the denominator
\* of every percentage and mean and is never a change of 0: in the day and
\* month statistics of analyze_patterns the positive and negative
\* percentages of a group are taken over its non-missing changes, in the day
\* statistics of analyze_csv likewise, and the weekly net-change series has
\* no entry for a week whose changes are all missing.
C13_MissingChangeOutOfDenominators ==
    /\ (Returned("analyze_patterns") /\ output.kind = "results") =>
          LET rows == Given.rows
              x == ChangesOf(rows)
              byDay(d) == {i \in 1..Len(rows) : DayOfWeek(rows[i].Date) = d}
              byMonth(m) == {i \in 1..Len(rows) : CivilFromDays(rows[i].Date).month = m}
              holds(stats, members) ==
                  LET present == {i \in members : ~IsNaN(x[i])}
                  IN /\ stats.count = Cardinality(present)
                     /\ present # {} =>
                           /\ stats.positive =
                                  ShareOf(Cardinality({i \in present : x[i] > 0}), Cardinality(present))
                           /\ stats.negative =
                                  ShareOf(Cardinality({i \in present : x[i] < 0}), Cardinality(present))
                           /\ stats.mean = RoundDiv(SumAt(present, x), Cardinality(present))
          IN /\ \A d \in DOMAIN output.day_of_week.day_stats :
                   holds(output.day_of_week.day_stats[d], byDay(d))
             /\ \A m \in DOMAIN output.monthly.daily_stats :
                   holds(output.monthly.daily_stats[m], byMonth(m))
             /\ \A k \in 1..Len(output.weekly_changes) :
                   \E i \in 1..Len(rows) :
                       /\ ~IsNaN(x[i])
                       /\ IsoYear(rows[i].Date) = output.weekly_changes[k].Year
                       /\ IsoWeek(rows[i].Date) = output.weekly_changes[k].Week_Number
    /\ (Returned("analyze_csv") /\ output.kind = "report") =>
          \A d \in 0..4 :
              LET rows == WeekdayRows(Given.rows)
                  present == {i \in 1..Len(rows) :
                                 DayOfWeek(rows[i].Date) = d /\ ~IsNaN(rows[i].Change)}
                  row == output.day_of_week_stats[d]
              IN present # {} =>
                    /\ row.total_days = Cardinality(present)
                    /\ row.positive_pct =
                           Percent(Cardinality({i \in present : rows[i].Change > 0}),
                                   Cardinality(present))

\* A required column is absent from the table given.
ColumnAbsent == Given.columns.Date = "absent" \/ Given.columns.Change = "absent"

ErrorOutcome == output.kind \in {"error", "message", "exception"}

NoValidRow ==
    \A i \in 1..Len(Given.rows) :
        DayOfWeek(Given.rows[i].Date) >= 5 \/ IsNaN(Given.rows[i].Change)

\* C18: when no weekday record with a non-missing change remains,
\* analyze_csv and analyze_patterns end in an error outcome and hand back
\* no partial result.
C18_NoValidRowIsAnError ==
    (pc = "done" /\ call \in {"analyze_csv", "analyze_patterns"}
        /\ ~ColumnAbsent /\ NoValidRow) => ErrorOutcome

\* The table of a file whose Change % and price columns are text, after
\* normalisation: the same records in numeric columns.
Normalised(t) ==
    [t EXCEPT !.columns.Change = IF @ = "object" THEN "float64" ELSE @,
              !.columns.Price  = IF @ = "object" THEN "float64" ELSE @]

\* C19: normalisation is idempotent: analyze_csv and the route
\* pattern_analysis take a file whose Change % and price columns are already
\* numeric without error, and hand back what they hand back for the same
\* records in text columns.
C19_NumericColumnsPassThrough ==
    (pc = "done" /\ call \in {"analyze_csv", "pattern_analysis"}
        /\ ~ColumnAbsent /\ Given.columns.Price # "absent"
        /\ Given.columns.Change = "object" /\ Given.columns.Price = "object"
        /\ HasStatistics) =>
        /\ Normalised(Normalised(Given)) = Normalised(Given)
        /\ ResultOf(call, Normalised(Given)).kind # "exception"
        /\ ResultOf(call, Normalised(Given)) = output

ConsultedIsSuccessor(rows, r) ==
    LET consulted == Loc(rows, r.idx + 1)
    IN /\ consulted.Date > r.Date
       /\ ~\E j \in 1..Len(rows) :
             r.Date < rows[j].Date /\ rows[j].Date < consulted.Date

\* The positions of a frame that have a successor.
WithSuccessor(rows) == 1..(Len(rows) - 1)

\* C23: in analyze_volatility_clustering the 'next day' of a high-volatility
\* day is the record immediately after it in date-ascending order, for every
\* order of the input rows: the record consulted has a strictly later date
\* and no record lies between the two, a high-volatility day that has a
\* successor has a record consulted, and the count of consecutive
\* high-volatility days is the count of chronologically adjacent pairs of them.
C23_NextDayIsChronologicalSuccessor ==
    (pc = "done" /\ call = "analyze_volatility_clustering") =>
        LET rows == dataset.rows
            high(k) == HighVolatility(rows, rows[k])
        IN /\ \A k \in 1..Len(rows) :
                 (high(k) /\ HasLabel(rows, rows[k].idx + 1)) =>
                     ConsultedIsSuccessor(rows, rows[k])
           /\ \A k \in WithSuccessor(rows) :
                 high(k) => HasLabel(rows, rows[k].idx + 1)
           /\ output.volatility_clustering # <<>> =>
                 output.volatility_clustering[1].consecutive_high_vol_count
                     = Cardinality({k \in WithSuccessor(rows) : high(k) /\ high(k + 1)})

\* The count reported for a transition under a condition (0: not reported).
TransitionCount(current_day, condition) ==
    IF current_day \in DOMAIN output.transitions
       /\ condition \in DOMAIN output.transitions[current_day]
    THEN output.transitions[current_day][condition].count
    ELSE 0

\* C24: a day-of-week transition is counted exactly for the pairs of records
\* that are adjacent in date-ascending order and whose weekdays are the two
\* named consecutive weekdays, and the successor's date is always later than
\* the current record's date, for every order of the input rows.
C24_TransitionsAreChronologicalPairs ==
    (pc = "done" /\ call = "analyze_day_of_week") =>
        LET rows == dataset.rows IN
        /\ \A d \in 0..3 : \A c \in {"after_positive", "after_negative"} :
              TransitionCount(d, c) =
                  Cardinality({k \in WithSuccessor(rows) :
                                  /\ DayOfWeek(rows[k].Date) = d
                                  /\ DayOfWeek(rows[k + 1].Date) = d + 1
                                  /\ ConditionHolds(c, rows[k].Change)})
        /\ \A d \in 0..3 : \A k \in 1..Len(TransitionRows(rows, d)) :
              Loc(rows, TransitionRows(rows, d)[k].idx + 1).Date
                  > TransitionRows(rows, d)[k].Date

\* The changes of the records consulted after the high-volatility days.
NextOfHighVolatility(rows) ==
    LET consulted == SelectSeq(rows, LAMBDA r :
                         HighVolatility(rows, r) /\ HasLabel(rows, r.idx + 1))
    IN [k \in 1..Len(consulted) |-> Loc(rows, consulted[k].idx + 1).Change]

\* C29: whenever after_high_volatility is reported, prob_positive +
\* prob_negative = 100: the denominator is the number of high-volatility
\* days whose next record (the record the routine consults) has a non-zero
\* change, zero-change and missing next days being excluded from it, and the
\* entry is absent when there is no such day.
C29_AfterHighVolatilitySumsToHundred ==
    (pc = "done" /\ call = "analyze_volatility_clustering") =>
        LET next == NextOfHighVolatility(dataset.rows)
            signed == Cardinality({k \in 1..Len(next) : Signed(next[k])})
            positive == Cardinality({k \in 1..Len(next) : Gt0(next[k])})
        IN /\ (output.after_high_volatility = <<>>) <=> (signed = 0)
           /\ output.after_high_volatility # <<>> =>
                 LET after == output.after_high_volatility[1] IN
                 /\ after.prob_positive + after.prob_negative = 10000
                 /\ after.prob_positive = RoundDiv(10000 * positive, signed)
                 /\ after.prob_negative = RoundDiv(10000 * (signed - positive), signed)

C29_Witness ==
    /\ pc = "done" /\ call = "analyze_volatility_clustering"
    /\ output.after_high_volatility # <<>>
    /\ \E k \in 1..Len(NextOfHighVolatility(dataset.rows)) :
          NextOfHighVolatility(dataset.rows)[k] = 0
    /\ output.after_high_volatility[1].prob_positive = 10000

(***************************************************************************)
(* app.py, analyze_csv: the counter of consecutive weeks (lines 219-251)   *)
(* and the weekly strength classes (lines 262-280) on a series of weekly   *)
(* net changes, in hundredths of a percent and in chronological order.     *)
(* A weekly sum is never missing and the report has at least one week.     *)
(***************************************************************************)
MaxTallyWeeks == 4

TallyValues == {-300, -200, -100, 0, 100, 200, 300}

InitTally ==
    /\ pc = "start"
    /\ weekly_changes \in SeqsUpTo(TallyValues, MaxTallyWeeks)
    /\ streak_stats = <<>>
    /\ results = <<>>
    /\ IdleScan /\ IdleBlock /\ IdleRange /\ IdleEntry

TallyWeeks ==
    /\ pc = "start"
    /\ results' = [consecutive_weeks |-> ConsecutiveWeeks(weekly_changes),
                   weekly_patterns   |-> WeeklyPatterns(weekly_changes)]
    /\ pc' = "done"
    /\ UNCHANGED <<weekly_changes, streak_stats, scanVars, blockVars, rangeVars, entryVars>>

NextTally == TallyWeeks

SpecTally == InitTally /\ [][NextTally]_vars

\* The maximal runs of weeks of one sign.
RunsOfType(ch, type) ==
    {r \in MaximalRuns(ch) : TypeOf(ch[r.start]) = type}

\* The weeks of one sign whose preceding week has the same sign.
PrecededBySame(ch, type) ==
    {k \in 2..Len(ch) : Signed(ch[k]) /\ TypeOf(ch[k]) = type /\ SameSign(ch[k], ch[k - 1])}

\* C27: consecutive_positive_weeks equals the sum over all maximal runs of
\* positive weeks of (run length - 1), i.e. the number of positive weeks
\* immediately preceded by a positive week in chronological order; a
\* zero-change or negative week resets it, and consecutive_negative_weeks is
\* symmetric.
C27_ConsecutiveWeeksCountRunTails ==
    pc = "done" =>
        LET ch == weekly_changes
            tails(type) == SumOver(RunsOfType(ch, type),
                                   [r \in RunsOfType(ch, type) |-> r.end - r.start])
            c == results.consecutive_weeks
        IN /\ c.consecutive_positive_weeks = tails("positive")
           /\ c.consecutive_positive_weeks = Cardinality(PrecededBySame(ch, "positive"))
           /\ c.consecutive_negative_weeks = tails("negative")
           /\ c.consecutive_negative_weeks = Cardinality(PrecededBySame(ch, "negative"))

C27_Witness ==
    /\ pc = "done"
    /\ weekly_changes = <<100, 100, 0, 100>>
    /\ results.consecutive_weeks.consecutive_positive_weeks = 1
    /\ results.consecutive_weeks.consecutive_negative_weeks = 0

\* C28: the four weekly strength classes (strong positive > 2.0, weak
\* positive in (0, 2.0), strong negative < -2.0, weak negative in (-2.0, 0))
\* are pairwise disjoint, and their counts sum to the number of weeks minus
\* the weeks whose net change is exactly 0, 2.0 or -2.0, which fall in no
\* class.
C28_StrengthClassesDisjoint ==
    pc = "done" =>
        LET ch == weekly_changes
            classesOf(k) == {c \in StrengthClasses : InStrengthClass(c, ch[k])}
            unclassed == {k \in 1..Len(ch) : ch[k] \in {0, StrongLimit, -StrongLimit}}
            counts == results.weekly_patterns
        IN /\ \A k \in 1..Len(ch) : Cardinality(classesOf(k)) <= 1
           /\ \A k \in unclassed : classesOf(k) = {}
           /\ \A c \in StrengthClasses :
                 counts[c] = Cardinality({k \in 1..Len(ch) : c \in classesOf(k)})
           /\ SumOver(StrengthClasses, counts) = Len(ch) - Cardinality(unclassed)
           /\ counts["strong_positive_weeks"]
                 = Cardinality({k \in 1..Len(ch) : ch[k] > 200})
           /\ counts["weak_positive_weeks"]
                 = Cardinality({k \in 1..Len(ch) : ch[k] > 0 /\ ch[k] < 200})
           /\ counts["strong_negative_weeks"]
                 = Cardinality({k \in 1..Len(ch) : ch[k] < -200})
           /\ counts["weak_negative_weeks"]
                 = Cardinality({k \in 1..Len(ch) : ch[k] < 0 /\ ch[k] > -200})

C28_Witness ==
    /\ pc = "done"
    /\ weekly_changes = <<200, 300, -200, 100>>
    /\ results.weekly_patterns["strong_positive_weeks"] = 1
    /\ results.weekly_patterns["weak_positive_weeks"] = 1
    /\ results.weekly_patterns["strong_negative_weeks"] = 0
    /\ results.weekly_patterns["weak_negative_weeks"] = 0

(***************************************************************************)
(* index_base_pattern.py, analyze_index_base_pattern (lines 4-109).        *)
(*                                                                         *)
(* A frame is [columns, rows]: the set of its column names and its rows in *)
(* frame order.  A row of the index-base frame carries its index label     *)
(* idx (1 is the source's label 0), its Date as a day number and Open,     *)
(* Low, High and Price in hundredths; a row of the primary frame carries   *)
(* Date and Open.  The cell of an absent column is None, a missing cell is *)
(* NaN.  Percentages, which the source rounds to two decimals, are         *)
(* integers in hundredths of a percent.  Prices are not negative.          *)
(***************************************************************************)
MaxIndexRows == 2
MaxPrimaryRows == 2

\* Friday 27 Dec 2024 and Monday 30 Dec 2024.
IndexDates == {20084, 20087}

\* 0, 125.50 and a missing cell; 100.00 and 125.50 for the primary data.
IndexOpens == {0, 12550, NaN}
PrimaryOpens == {10000, 12550, NaN}

\* Low, High and Price of a row.
IndexPrices ==
    {[Low |-> 10000, High |-> 12550, Price |-> 10000],
     [Low |-> 0, High |-> NaN, Price |-> 12550]}

\* required_columns (index_base_pattern.py:21)
required_columns == {"Open", "Low", "High", "Price"}

\* int(x) of a non-negative number of hundredths: the whole part.
IntPart(x) == x \div 100

\* round(((new - old) / old) * 100, 2) for old # 0: NaN when either is missing.
PercentChange(new, old) ==
    IF IsNaN(new) \/ IsNaN(old) THEN NaN
    ELSE RoundDiv(10000 * (new - old), old)

\* matching_row['Open'].values[0] of the rows whose Date equals date, or None
\* (index_base_pattern.py:46-51).
MatchingOpen(primary_rows, date) ==
    LET matching_row == SelectSeq(primary_rows, LAMBDA r : r.Date = date)
    IN IF matching_row # <<>> THEN matching_row[1].Open ELSE None

\* results['primary_open'] (index_base_pattern.py:39-54).
PrimaryOpenList(primary_df, index_base_df) ==
    IF "Date" \in primary_df.columns /\ "Date" \in index_base_df.columns
    THEN [k \in 1..Len(index_base_df.rows) |->
             MatchingOpen(primary_df.rows, index_base_df.rows[k].Date)]
    ELSE [k \in 1..Len(index_base_df.rows) |-> primary_df.rows[1].Open]

\* The primary open the loop takes for the row at position k, whose label is
\* i (index_base_pattern.py:61, 77): results['primary_open'][i] when i is
\* within the list, else None.
PrimaryOpenAt(primary_open, rows, k) ==
    IF rows[k].idx <= Len(primary_open) THEN primary_open[rows[k].idx] ELSE None

\* The entry appended to alt_opens for a row (index_base_pattern.py:78-94).
AltOpen(primary_open, row) ==
    IF primary_open # None /\ row.Open # 0
    THEN LET primary_open_int == IntPart(primary_open)
             index_open_int == IntPart(row.Open)
         IN IF index_open_int > 0
            THEN RoundDiv(10000 * (index_open_int - primary_open_int), index_open_int)
            ELSE None
    ELSE None

\* int() of a missing value raises ValueError (index_base_pattern.py:80-81).
AltOpenRaises(primary_open, row) ==
    /\ primary_open # None /\ row.Open # 0
    /\ IsNaN(primary_open) \/ IsNaN(row.Open)

analyze_index_base_pattern(primary_df, index_base_df) ==
    LET rows == index_base_df.rows
        n == Len(rows)
        missing_columns == required_columns \ index_base_df.columns
    IN
    IF "Open" \notin primary_df.columns
    THEN [kind |-> "error", error |-> "Required column 'Open' not found in primary data"]
    ELSE IF missing_columns # {}
    THEN [kind |-> "error", error |-> "Required columns not found in index base data"]
    ELSE IF ~("Date" \in primary_df.columns /\ "Date" \in index_base_df.columns)
            /\ primary_df.rows = <<>>
    THEN Raised("IndexError")
    ELSE LET primary_open == PrimaryOpenList(primary_df, index_base_df)
             taken(k) == PrimaryOpenAt(primary_open, rows, k)
         IN IF \E k \in 1..n : AltOpenRaises(taken(k), rows[k])
            THEN Raised("ValueError")
            ELSE [kind         |-> "results",
                  keys         |-> {"price_percentages", "open", "low", "high", "price",
                                    "primary_open", "since_low", "since_high", "alt_opens"}
                                   \cup (IF "Date" \in index_base_df.columns
                                         THEN {"dates"} ELSE {}),
                  open         |-> [k \in 1..n |-> rows[k].Open],
                  low          |-> [k \in 1..n |-> rows[k].Low],
                  high         |-> [k \in 1..n |-> rows[k].High],
                  price        |-> [k \in 1..n |-> rows[k].Price],
                  primary_open |-> primary_open,
                  since_low    |-> [k \in 1..n |->
                                      IF rows[k].Low # 0
                                      THEN PercentChange(rows[k].Price, rows[k].Low)
                                      ELSE 0],
                  since_high   |-> [k \in 1..n |->
                                      IF rows[k].High # 0
                                      THEN PercentChange(rows[k].Price, rows[k].High)
                                      ELSE 0],
                  alt_opens    |-> [k \in 1..n |-> AltOpen(taken(k), rows[k])],
                  price_percentages |->
                      [k \in 1..n |->
                          IF rows[k].Open # 0
                          THEN PercentChange(rows[k].Price, rows[k].Open)
                          ELSE None]]

\* The column sets of the two frames.
PrimaryColumns == {{"Date", "Open"}, {"Open"}, {"Date"}}
IndexColumns ==
    {{"Date", "Open", "Low", "High", "Price"},
     {"Open", "Low", "High", "Price"},
     {"Date", "Open", "High", "Price"}}

\* The cell of a column: None when the frame has no such column.
Cell(columns, name, value) == IF name \in columns THEN value ELSE None

\* The primary frames: up to MaxPrimaryRows rows of ascending distinct dates.
PrimaryFrames ==
    LET cells == [Date : IndexDates, Open : PrimaryOpens]
        files == {q \in SeqsUpTo(cells, MaxPrimaryRows) \cup {<<>>} :
                     \A i \in 1..(Len(q) - 1) : q[i].Date < q[i + 1].Date}
    IN {[columns |-> c,
         rows |-> [i \in 1..Len(q) |->
                      [Date |-> Cell(c, "Date", q[i].Date),
                       Open |-> Cell(c, "Open", q[i].Open)]]] :
            c \in PrimaryColumns, q \in files}

\* The labels of an index-base frame of n rows: as read from a file, after
\* the rows of a file were put in the reverse order, and after the first row
\* of a file was dropped.
IndexLabels(n) ==
    {[i \in 1..n |-> i], [i \in 1..n |-> n + 1 - i], [i \in 1..n |-> i + 1]}

\* The index-base frames: up to MaxIndexRows rows.
IndexFrames ==
    LET cells == [Date : IndexDates, Open : IndexOpens, prices : IndexPrices]
        frame(c, q, labels) ==
            [columns |-> c,
             rows |-> [i \in 1..Len(q) |->
                          [idx   |-> labels[i],
                           Date  |-> Cell(c, "Date", q[i].Date),
                           Open  |-> Cell(c, "Open", q[i].Open),
                           Low   |-> Cell(c, "Low", q[i].prices.Low),
                           High  |-> Cell(c, "High", q[i].prices.High),
                           Price |-> Cell(c, "Price", q[i].prices.Price)]]]
    IN UNION {{frame(c, q, labels) : c \in IndexColumns, labels \in IndexLabels(Len(q))} :
                 q \in SeqsUpTo(cells, MaxIndexRows) \cup {<<>>}}

InitIndexBase ==
    /\ pc = "start"
    /\ call = "analyze_index_base_pattern"
    /\ dataset \in [primary_df : PrimaryFrames, index_base_df : IndexFrames]
    /\ output = <<>>
    /\ history = <<>>
    /\ IdleScan /\ IdleWeeks /\ IdleBlock /\ IdleRange

AnalyzeIndexBasePattern ==
    /\ pc = "start" /\ call = "analyze_index_base_pattern"
    /\ output' = analyze_index_base_pattern(dataset.primary_df, dataset.index_base_df)
    /\ pc' = "done"
    /\ UNCHANGED <<call, dataset, history, scanVars, weekVars, blockVars, rangeVars>>

NextIndexBase == AnalyzeIndexBasePattern

SpecIndexBase == InitIndexBase /\ [][NextIndexBase]_vars

\* C30: for every index-base dataset that has the columns Open, Low, High
\* and Price (and a primary dataset with Open), the result holds the lists
\* open, low, high, price, primary_open, since_low, since_high, alt_opens and
\* price_percentages with exactly one entry per index-base row, entry i
\* describing row i; alt_opens[i] is None whenever row i's date has no match
\* in the primary data; when a required column is missing the result holds
\* only an error.
C30_OneEntryPerIndexBaseRow ==
    (pc = "done" /\ call = "analyze_index_base_pattern") =>
        LET primary_df == dataset.primary_df
            index_base_df == dataset.index_base_df
            rows == index_base_df.rows
            n == Len(rows)
            dated == "Date" \in primary_df.columns /\ "Date" \in index_base_df.columns
            matched(k) == \E j \in 1..Len(primary_df.rows) :
                              primary_df.rows[j].Date = rows[k].Date
        IN IF "Open" \notin primary_df.columns
              \/ ~(required_columns \subseteq index_base_df.columns)
           THEN output.kind = "error" /\ DOMAIN output = {"kind", "error"}
           ELSE /\ output.kind = "results"
                /\ \A list \in {"open", "low", "high", "price", "primary_open",
                                "since_low", "since_high", "alt_opens",
                                "price_percentages"} :
                      list \in output.keys /\ Len(output[list]) = n
                /\ \A k \in 1..n :
                      /\ output.open[k] = rows[k].Open
                      /\ output.low[k] = rows[k].Low
                      /\ output.high[k] = rows[k].High
                      /\ output.price[k] = rows[k].Price
                      /\ dated => output.primary_open[k]
                                      = MatchingOpen(primary_df.rows, rows[k].Date)
                      /\ output.alt_opens[k] = AltOpen(output.primary_open[k], rows[k])
                      /\ (dated /\ ~matched(k)) => output.alt_opens[k] = None

====
